---- MODULE Spec2Model ----
(***************************************************************************)
(* The hyperlocal feed engine of goodnight_market: trade-match discovery   *)
(* (worker/feed_tasks.py), the acceptance protocol of a TradeMatch         *)
(* (services/models/trade_match.py, services/routers/feed_v2.py) and the   *)
(* listing lifecycle (services/models/listing.py).                         *)
(*                                                                         *)
(* The relational store is the state: listings, saves (listing_saves rows) *)
(* and matches (trade_matches rows, a match's id is its index).  Every     *)
(* request handler and every periodic job is one action: it reads the      *)
(* store, does what its code does and commits.  Time is a clock in days.   *)
(* Timestamps that nothing reads (updated_at, sold_at, completed_at) and   *)
(* the listings' descriptive columns are left out.                         *)
(***************************************************************************)
EXTENDS Integers, Sequences, FiniteSets, TLC

VARIABLES
    listings,            \* id -> row of table listings
    saves,               \* rows of listing_saves, as <<user_id, listing_id>>
    saved_at,            \* row of listing_saves -> its created_at
    matches,             \* rows of trade_matches, in order of creation
    heat,                \* R9 cell -> row of neighborhood_heat_index
    events,              \* rows of feed_events, in order of creation
    event_ids,           \* number of FeedEvent ids handed out so far
    published,           \* the messages the broker accepted, in order
    broker_up,           \* whether the broker can be reached
    active_connections,  \* manager.active_connections: websocket -> channels
    pubsub,              \* websocket -> channels its pubsub holds at the broker
    sockets,             \* websocket -> where its handler stands
    requests,            \* request -> what a handler in flight has loaded
    now,                 \* datetime.utcnow(), in days
    json_tracked,        \* whether the ORM writes in-place changes of a JSON column
    response             \* what the last handler or job returned

\* The rows and messages of the feed, the websocket side, and both.
feedvars == <<saved_at, heat, events, event_ids, published, broker_up>>

streamvars == <<active_connections, pubsub, sockets>>

vars ==
    <<listings, saves, matches, feedvars, streamvars, requests, now,
      json_tracked, response>>

----------------------------------------------------------------------------
\* Bounds of the model.

MaxTime == 8
MaxSaves == 4
MaxEvents == 2
MaxViews == 1
MaxListings == 3
MaxDemand == 2
MaxRequests == 2
MaxSockets == 2

\* NULL of a nullable column, for each column type.
NoPrice == -1
NoExpiry == -1
NoUser == 0
NoMatch == NoUser
NoCell == <<>>
NoAcceptances == <<>>

\* timedelta(days=7) of TradeMatch.create_two_way
MatchTTLDays == 7

\* hours = 24 of update_heat_indexes, and the hours of a day
Hours == 24

\* timedelta(hours=24), the window of update_heat_indexes, in days
HeatWindowDays == 1

\* 168 hours = 7 days of compute_listing_rankings
FreshHours == 168

\* timedelta(days=30) of create_listing
ListingTTLDays == 30

\* timedelta(days=7) of cleanup_expired_feed_data
EventRetentionDays == 7

\* limit: int = Query(default=20, ge=1, le=50) of get_trade_matches
DefaultLimit == 20

Users == {1, 2, 3}

MatchStatus ==
    {"SUGGESTED", "VIEWED", "PENDING", "ACCEPTED", "COMPLETED", "DECLINED", "EXPIRED"}

ListingStatus == {"ACTIVE", "PENDING", "SOLD", "TRADED", "EXPIRED", "DELETED"}

Min(a, b) == IF a <= b THEN a ELSE b

Max(a, b) == IF a >= b THEN a ELSE b

Abs(a) == IF a >= 0 THEN a ELSE 0 - a

Range(s) == {s[i] : i \in DOMAIN s}

\* The elements of a finite set of integers, ascending.
RECURSIVE Ascending(_)
Ascending(S) ==
    IF S = {} THEN <<>>
    ELSE LET lo == CHOOSE x \in S : \A y \in S : x <= y
         IN <<lo>> \o Ascending(S \ {lo})

----------------------------------------------------------------------------
\* The listings the model runs on.  A cell is <<base cell, position>>: the
\* grid distance of two cells of one base cell is the difference of their
\* positions, and h3_distance raises for cells of different base cells.
\* Listings 1 and 3 are the scenario of the specification: priced 100 and
\* 120, in the same cell.  Listing 2 is trade-only (no price) and expires,
\* listing 4 is far away, listing 5 lies where the distance lookup fails and
\* listing 6 is for sale only.

\* The grid (h3).  A point is <<lat, lng>>, one point per cell of resolution
\* 9; the cell of a point is <<lng, lat>> (base cell, position) at resolution
\* 9 and <<lng, position, resolution>> at a coarser resolution, where one
\* cell holds Aperture cells of the next finer resolution.
Aperture == 2

RECURSIVE Power(_, _)
Power(b, e) == IF e = 0 THEN 1 ELSE b * Power(b, e - 1)

geo_to_h3(lat, lng, res) ==
    IF res = 9 THEN <<lng, lat>> ELSE <<lng, lat \div Power(Aperture, 9 - res), res>>

\* The centre <<lat, lng>> of a cell of resolution 9.
h3_to_geo(cell) == <<cell[2], cell[1]>>

\* h3.h3_to_parent: the cell of a coarser resolution that holds a cell.
h3_to_parent(cell, res) ==
    IF Len(cell) = 2
    THEN <<cell[1], cell[2] \div Power(Aperture, 9 - res), res>>
    ELSE <<cell[1], cell[2] \div Power(Aperture, cell[3] - res), res>>

\* The cells at grid distance at most k of a cell.
k_ring(cell, k) ==
    IF Len(cell) = 2
    THEN {<<cell[1], q>> : q \in (cell[2] - k)..(cell[2] + k)}
    ELSE {<<cell[1], q, cell[3]>> : q \in (cell[2] - k)..(cell[2] + k)}

\* A row of listings as the constructor and the column defaults make it
\* (services/models/listing.py, 78-123).
ListingRow(user_id, trade_intent, price, created_at, expires_at) ==
    [user_id |-> user_id, status |-> "ACTIVE", trade_intent |-> trade_intent,
     price |-> price, original_price |-> NoPrice,
     h3_index |-> NoCell, h3_index_r8 |-> NoCell, h3_index_r7 |-> NoCell,
     authenticity_score |-> 0, is_verified |-> FALSE,
     view_count |-> 0, save_count |-> 0, message_count |-> 0,
     rank_score |-> <<0, 1>>, demand_score |-> <<0, 1>>,
     created_at |-> created_at, expires_at |-> expires_at]

\* Listing.set_h3_indexes, FeedEvent.set_h3_indexes
set_h3_indexes(row, lat, lng) ==
    [row EXCEPT !.h3_index = geo_to_h3(lat, lng, 9),
                !.h3_index_r8 = geo_to_h3(lat, lng, 8),
                !.h3_index_r7 = geo_to_h3(lat, lng, 7)]

World ==
    [l \in 1..6 |->
        CASE l = 1 -> [set_h3_indexes(ListingRow(1, "BOTH", 100, 0, NoExpiry), 0, 0)
                          EXCEPT !.authenticity_score = 100, !.is_verified = TRUE]
          [] l = 2 -> set_h3_indexes(ListingRow(1, "TRADE", NoPrice, 0, 7), 3, 0)
          [] l = 3 -> [set_h3_indexes(ListingRow(2, "TRADE", 120, 0, NoExpiry), 0, 0)
                          EXCEPT !.authenticity_score = 50]
          [] l = 4 -> set_h3_indexes(ListingRow(2, "BOTH", 60, 0, NoExpiry), 12, 0)
          [] l = 5 -> set_h3_indexes(ListingRow(3, "BOTH", 0, 0, NoExpiry), 0, 1)
          [] OTHER -> set_h3_indexes(ListingRow(3, "SALE", 80, 0, NoExpiry), 1, 0)]

\* The rows as record_save has left them after the saves S.
Saved(rows, S) ==
    [l \in DOMAIN rows |->
        LET n == Cardinality({s \in S : s[2] = l})
        IN  [rows[l] EXCEPT !.save_count = n, !.demand_score = <<n, 1>>]]

ListingIds == DOMAIN listings

MatchIds == DOMAIN matches

\* What a handler or a job returns: the operation, the caller, the row it was
\* about, the HTTP status code (200 for a job that succeeded), the status it
\* reports, the acceptances map of the object it worked on, the match ids it
\* lists and the number of rows it reports.
Resp(op, user, target, code, status, acc, returned, count) ==
    [op |-> op, user |-> user, target |-> target, code |-> code,
     status |-> status, acceptances |-> acc, returned |-> returned,
     count |-> count]

NoResponse == Resp("none", NoUser, NoMatch, 0, "", NoAcceptances, {}, 0)

----------------------------------------------------------------------------
\* TradeMatch (services/models/trade_match.py)

Participant(user, offers, wants) ==
    [user_id |-> user, offers_listing_id |-> offers, wants_listing_id |-> wants]

create_two_way_same_wants(user_a_id, user_b_id, listing_a_id, listing_b_id, h3_common, locality_score) ==
    [match_type |-> "TWO_WAY",
     participants |-> <<Participant(user_a_id, listing_a_id, listing_b_id),
                        Participant(user_b_id, listing_b_id, listing_b_id)>>,
     user_ids |-> <<user_a_id, user_b_id>>,
     listing_ids |-> <<listing_a_id, listing_b_id>>,
     h3_common |-> h3_common,
     locality_score |-> locality_score,
     match_score |-> <<0, 1>>,
     value_balance |-> <<0, 1>>,
     status |-> "SUGGESTED",
     acceptances |-> NoAcceptances,
     expires_at |-> now + MatchTTLDays]

create_two_way(user_a_id, user_b_id, listing_a_id, listing_b_id, h3_common, locality_score) ==
    [match_type |-> "TWO_WAY",
     participants |-> <<Participant(user_a_id, listing_a_id, listing_b_id),
                        Participant(user_b_id, listing_b_id, listing_a_id)>>,
     user_ids |-> <<user_a_id, user_b_id>>,
     listing_ids |-> <<listing_a_id, listing_b_id>>,
     h3_common |-> h3_common,
     locality_score |-> locality_score,
     match_score |-> <<0, 1>>,
     value_balance |-> <<0, 1>>,
     status |-> "SUGGESTED",
     acceptances |-> NoAcceptances,
     expires_at |-> now + MatchTTLDays]

is_expired(m) ==
    IF m.expires_at = NoExpiry THEN FALSE ELSE now > m.expires_at

record_view(m, user_id) ==
    IF m.status = "SUGGESTED" THEN [m EXCEPT !.status = "VIEWED"] ELSE m

\* self.acceptances[user_id] = entry
SetEntry(acc, user_id, entry) ==
    [u \in (DOMAIN acc) \cup {user_id} |-> IF u = user_id THEN entry ELSE acc[u]]

\* self.acceptances.get(str(uid), {}).get("accepted", False)
Accepted(acc, uid) == uid \in DOMAIN acc /\ acc[uid].accepted

record_acceptance(m, user_id) ==
    LET acc == SetEntry(m.acceptances, user_id,
                        [accepted |-> TRUE, declined |-> FALSE])
        all_accepted == \A i \in DOMAIN m.user_ids : Accepted(acc, m.user_ids[i])
    IN  [m EXCEPT !.acceptances = acc,
                  !.status = IF all_accepted THEN "ACCEPTED"
                             ELSE IF m.status \in {"SUGGESTED", "VIEWED"}
                                  THEN "PENDING"
                                  ELSE m.status]

record_decline(m, user_id) ==
    [m EXCEPT !.acceptances = SetEntry(m.acceptances, user_id,
                                       [accepted |-> FALSE, declined |-> TRUE]),
              !.status = "DECLINED"]

complete(m) == [m EXCEPT !.status = "COMPLETED"]

\* db.commit() of a handler that changed the loaded row `old` into `new`.
\* acceptances is a plain JSON column: the ORM writes it when the attribute
\* was assigned (self.acceptances = {}, which the methods do when the map is
\* still empty) and, for an item assignment into the loaded map, only when
\* mutation tracking is set up for the type, which is the declarative base's
\* business (services/database.py).  Every other column changed is written.
Committed(old, new) ==
    IF json_tracked \/ old.acceptances = NoAcceptances
    THEN new
    ELSE [new EXCEPT !.acceptances = old.acceptances]

----------------------------------------------------------------------------
\* Listing (services/models/listing.py)

mark_sold(l) == [l EXCEPT !.status = "SOLD"]

mark_traded(l) == [l EXCEPT !.status = "TRADED"]

----------------------------------------------------------------------------
\* find_trade_matches (worker/feed_tasks.py)

\* Fractions <<numerator, denominator>> with a positive denominator stand for
\* the floats match_score and value_balance.
RatAdd(p, q) == <<p[1] * q[2] + q[1] * p[2], p[2] * q[2]>>

RatLess(p, q) == p[1] * q[2] < q[1] * p[2]

RatEq(p, q) == p[1] * q[2] = q[1] * p[2]

RatLeq(p, q) == p[1] * q[2] <= q[1] * p[2]

RatMin(p, q) == IF RatLeq(p, q) THEN p ELSE q

RatMax(p, q) == IF RatLeq(p, q) THEN q ELSE p

RECURSIVE GCD(_, _)
GCD(a, b) == IF b = 0 THEN a ELSE GCD(b, a % b)

\* The fraction in lowest terms: one float, one representation.
Rat(n, d) == LET g == GCD(Abs(n), d) IN <<n \div g, d \div g>>

RECURSIVE RatSum(_)
RatSum(ps) ==
    IF ps = <<>> THEN <<0, 1>>
    ELSE LET r == RatAdd(Head(ps), RatSum(Tail(ps))) IN Rat(r[1], r[2])

\* Listing.status == ACTIVE, Listing.trade_intent.in_(['TRADE', 'BOTH'])
TradeEligible(l) ==
    /\ listings[l].status = "ACTIVE"
    /\ listings[l].trade_intent \in {"TRADE", "BOTH"}

\* The users a pass works on: the one it is scoped to, or every user who has
\* an active trade-intent listing (fewer than the limit of 100 here).
UsersToProcess(scope) ==
    IF scope # NoUser
    THEN {scope} \cap Users
    ELSE {u \in Users : \E l \in ListingIds : listings[l].user_id = u /\ TradeEligible(l)}

user_listings(user) ==
    {l \in ListingIds : listings[l].user_id = user /\ TradeEligible(l)}

saved_listings(user) ==
    {l \in ListingIds : <<user, l>> \in saves /\ TradeEligible(l)}

\* h3.h3_distance raises when the grid distance of the two cells cannot be
\* computed.
DistanceFails(a, b) == a = NoCell \/ b = NoCell \/ a[1] # b[1]

h3_distance(a, b) == Abs(a[2] - b[2])

LocalityScoreUnclamped(a, b) ==
    IF DistanceFails(a, b) THEN 50 ELSE 100 - (h3_distance(a, b) * 10)

LocalityScore(a, b) ==
    IF DistanceFails(a, b) THEN 50 ELSE Max(0, 100 - (h3_distance(a, b) * 10))

\* if user_offers.price and wanted.price: a missing price and a price of 0
\* are both false
HasPrice(l) == listings[l].price # NoPrice /\ listings[l].price # 0

\* The match of lines 360-390 for user's listing offers and the saved
\* listing wanted.
NewMatch(user, offers, wanted) ==
    LET locality_score ==
            LocalityScore(listings[offers].h3_index, listings[wanted].h3_index)
        match == create_two_way(user, listings[wanted].user_id, offers, wanted,
                                IF locality_score > 80
                                THEN listings[offers].h3_index ELSE NoCell,
                                locality_score)
        ratio == <<Min(listings[offers].price, listings[wanted].price),
                   Max(listings[offers].price, listings[wanted].price)>>
    IN  IF HasPrice(offers) /\ HasPrice(wanted)
        THEN [match EXCEPT !.match_score = RatAdd(<<locality_score, 2>>,
                                                  <<ratio[1] * 50, ratio[2]>>),
                           !.value_balance = ratio]
        ELSE [match EXCEPT !.match_score = <<locality_score, 2>>]

\* TradeMatch.listing_ids.contains([user_offers.id, wanted.id]): the array
\* containment of the store, whatever the order and the status of the row.
Existing(ms, offers, wanted) ==
    \E i \in DOMAIN ms : {offers, wanted} \subseteq Range(ms[i].listing_ids)

\* The listings of user that the owner of wanted has saved: the rows the
\* query of other_user_saves selects.  first() returns any one of them.
OtherUserSaves(user, wanted) ==
    {x \in user_listings(user) : <<listings[wanted].user_id, x>> \in saves}

\* One turn of the loop over saved_listings, from the trade_matches rows ms
\* (the session flushes the matches added so far before each query): the
\* tables it can leave.
WantedStep(ms, user, wanted) ==
    IF listings[wanted].user_id = user \/ OtherUserSaves(user, wanted) = {}
    THEN {ms}
    ELSE {IF Existing(ms, user_offers, wanted)
          THEN ms
          ELSE Append(ms, NewMatch(user, user_offers, wanted)) :
          user_offers \in OtherUserSaves(user, wanted)}

\* The turns of a pass, <<user, wanted>>, in the order of the two loops.
RECURSIVE Turns(_)
Turns(users) ==
    IF users = <<>> THEN <<>>
    ELSE LET user == Head(users)
             wants == Ascending(saved_listings(user))
         IN  [i \in DOMAIN wants |-> <<user, wants[i]>>] \o Turns(Tail(users))

RECURSIVE PassOutcomes(_, _)
PassOutcomes(tables, turns) ==
    IF turns = <<>> THEN tables
    ELSE PassOutcomes(
             UNION {WantedStep(ms, Head(turns)[1], Head(turns)[2]) : ms \in tables},
             Tail(turns))

find_trade_matches(scope) ==
    /\ \E ms \in PassOutcomes({matches}, Turns(Ascending(UsersToProcess(scope)))) :
           /\ matches' = ms
           /\ response' = Resp("find_trade_matches", scope, NoMatch, 200, "",
                               NoAcceptances, {}, Len(ms) - Len(matches))
    /\ UNCHANGED <<listings, saves, now, json_tracked, feedvars, streamvars, requests>>

----------------------------------------------------------------------------
\* Trade-match handlers (services/routers/feed_v2.py)

\* order_by(desc(match_score), desc(locality_score)): b sorts before a
SortsBefore(b, a) ==
    \/ RatLess(matches[a].match_score, matches[b].match_score)
    \/ /\ RatEq(matches[a].match_score, matches[b].match_score)
       /\ matches[a].locality_score < matches[b].locality_score

\* The rows the query of get_trade_matches selects before its limit.
MatchesOf(user, status_filter) ==
    {i \in MatchIds :
        /\ user \in Range(matches[i].user_ids)
        /\ IF status_filter # ""
           THEN matches[i].status = status_filter
           ELSE matches[i].status \in {"SUGGESTED", "VIEWED", "PENDING", "ACCEPTED"}
        /\ matches[i].expires_at = NoExpiry \/ matches[i].expires_at > now}

get_trade_matches(user, status_filter, limit) ==
    /\ \E returned \in SUBSET MatchesOf(user, status_filter) :
           /\ Cardinality(returned) =
                  Min(limit, Cardinality(MatchesOf(user, status_filter)))
           /\ \A a \in returned :
                  \A b \in MatchesOf(user, status_filter) \ returned :
                      ~SortsBefore(b, a)
           /\ response' = Resp("get_trade_matches", user, NoMatch, 200, "",
                               NoAcceptances, returned, Cardinality(returned))
    /\ UNCHANGED <<listings, saves, matches, now, json_tracked, feedvars, streamvars, requests>>

\* current_user.user_id not in match.user_ids, negated
IsParticipantAlways(user, m) == TRUE

IsParticipant(user, m) == user \in Range(m.user_ids)

accept_trade_match(user, match_id) ==
    /\ IF match_id \notin MatchIds
       THEN /\ response' = Resp("accept", user, match_id, 404, "",
                                NoAcceptances, {}, 0)
            /\ UNCHANGED matches
       ELSE IF ~IsParticipant(user, matches[match_id])
       THEN /\ response' = Resp("accept", user, match_id, 403, "",
                                NoAcceptances, {}, 0)
            /\ UNCHANGED matches
       ELSE LET match == record_acceptance(matches[match_id], user)
            IN  /\ matches' = [matches EXCEPT
                                  ![match_id] = Committed(matches[match_id], match)]
                /\ response' = Resp("accept", user, match_id, 200, match.status,
                                    match.acceptances, {}, 0)
    /\ UNCHANGED <<listings, saves, now, json_tracked, feedvars, streamvars, requests>>

decline_trade_match(user, match_id) ==
    /\ IF match_id \notin MatchIds
       THEN /\ response' = Resp("decline", user, match_id, 404, "",
                                NoAcceptances, {}, 0)
            /\ UNCHANGED matches
       ELSE IF ~IsParticipant(user, matches[match_id])
       THEN /\ response' = Resp("decline", user, match_id, 403, "",
                                NoAcceptances, {}, 0)
            /\ UNCHANGED matches
       ELSE LET match == record_decline(matches[match_id], user)
            IN  /\ matches' = [matches EXCEPT
                                  ![match_id] = Committed(matches[match_id], match)]
                /\ response' = Resp("decline", user, match_id, 200, match.status,
                                    match.acceptances, {}, 0)
    /\ UNCHANGED <<listings, saves, now, json_tracked, feedvars, streamvars, requests>>

\* TradeMatch.record_view and TradeMatch.complete, called on a stored match
\* (no handler under services/routers calls them).
RecordView(user, match_id) ==
    /\ match_id \in MatchIds
    /\ user \in Range(matches[match_id].user_ids)
    /\ matches' = [matches EXCEPT ![match_id] = record_view(@, user)]
    /\ response' = Resp("record_view", user, match_id, 200,
                        matches'[match_id].status, NoAcceptances, {}, 0)
    /\ UNCHANGED <<listings, saves, now, json_tracked, feedvars, streamvars, requests>>

Complete(match_id) ==
    /\ match_id \in MatchIds
    /\ matches' = [matches EXCEPT ![match_id] = complete(@)]
    /\ response' = Resp("complete", NoUser, match_id, 200, "COMPLETED",
                        NoAcceptances, {}, 0)
    /\ UNCHANGED <<listings, saves, now, json_tracked, feedvars, streamvars, requests>>

----------------------------------------------------------------------------
\* FeedEvent (services/models/feed_event.py) and the broker

\* create_listing_event, create_price_drop_event, create_sold_event: the row
\* as the commit stores it, with a fresh id and created_at = now().
FeedEvent(event_type, listing_id, user_id, h3_index) ==
    LET geo == h3_to_geo(h3_index)
    IN  set_h3_indexes([id |-> event_ids + 1, event_type |-> event_type,
                        entity_type |-> "listing", entity_id |-> listing_id,
                        user_id |-> user_id,
                        h3_index |-> h3_index, h3_index_r8 |-> NoCell,
                        h3_index_r7 |-> NoCell,
                        created_at |-> now, expires_at |-> NoExpiry],
                       geo[1], geo[2])

Channel(cell) == <<"feed", cell>>

AfterPublishRaises(code) == IF broker_up THEN code ELSE 500

\* The status a handler answers with after its publish: the try/except
\* around redis_client.publish logs a failure and goes on to the return.
AfterPublish(code) == code

PublishTwice(channel, event) ==
    LET message == [channel |-> channel, id |-> event.id,
                    type |-> event.event_type, entity_id |-> event.entity_id]
    IN  IF broker_up THEN published \o <<message, message>> ELSE published

\* await redis_client.publish(channel, json.dumps(event.to_ribbon_item())) in
\* try/except Exception: what the broker holds afterwards.
Publish(channel, event) ==
    IF broker_up
    THEN Append(published, [channel |-> channel, id |-> event.id,
                            type |-> event.event_type,
                            entity_id |-> event.entity_id])
    ELSE published

----------------------------------------------------------------------------
\* Listing engagement and price (services/models/listing.py)

\* Listing.record_view
Listing_record_view(l) == [l EXCEPT !.view_count = @ + 1]

record_save_demand_only(l) ==
    [l EXCEPT !.demand_score = RatSum(<<@, <<1, 1>>>>)]

record_save(l) ==
    [l EXCEPT !.save_count = @ + 1,
              !.demand_score = RatSum(<<@, <<1, 1>>>>)]

record_message(l) ==
    [l EXCEPT !.message_count = @ + 1,
              !.demand_score = RatSum(<<@, <<2, 1>>>>)]

\* price and original_price are DECIMAL(10, 2) columns, a request's price is a
\* float. The amounts of the model are whole numbers of a fifth of 0.01, so
\* that a request can name an amount between two amounts a column can hold.
PriceQuantum == 5

\* What a DECIMAL(10, 2) column keeps of an amount written to it: the amount
\* rounded to two decimals; NULL stays NULL.
Decimal2(price) ==
    IF price = NoPrice THEN NoPrice
    ELSE ((2 * price + PriceQuantum) \div (2 * PriceQuantum)) * PriceQuantum

\* The listing row as db.commit() stores it and a later request loads it.
StoredListing(l) == [l EXCEPT !.price = Decimal2(@), !.original_price = Decimal2(@)]

\* A Decimal that is None or 0 is false.
Truthy(price) == price # NoPrice /\ price # 0

CanDropNotHigher(l, new_price) == Truthy(l.price) /\ new_price <= l.price

\* Listing.drop_price: whether it returns True, and the row it leaves.
CanDrop(l, new_price) == Truthy(l.price) /\ new_price < l.price

drop_price(l, new_price) ==
    IF CanDrop(l, new_price)
    THEN [l EXCEPT !.original_price = IF Truthy(@) THEN @ ELSE l.price,
                   !.price = new_price]
    ELSE l

\* Listing.get_price_drop_percent
get_price_drop_percent(l) ==
    IF ~Truthy(l.original_price) \/ ~Truthy(l.price)
    THEN <<0, 1>>
    ELSE Rat((l.original_price - l.price) * 100, l.original_price)

----------------------------------------------------------------------------
\* Listing handlers (services/routers/feed_v2.py)

mark_listing_sold(user, listing_id) ==
    /\ IF listing_id \notin ListingIds
       THEN /\ response' = Resp("sold", user, listing_id, 404, "",
                                NoAcceptances, {}, 0)
            /\ UNCHANGED <<listings, events, event_ids, published>>
       ELSE IF listings[listing_id].user_id # user
       THEN /\ response' = Resp("sold", user, listing_id, 403, "",
                                NoAcceptances, {}, 0)
            /\ UNCHANGED <<listings, events, event_ids, published>>
       ELSE LET event == FeedEvent("ITEM_SOLD", listing_id, NoUser,
                                   listings[listing_id].h3_index)
            IN  /\ Len(events) < MaxEvents
                /\ listings' = [listings EXCEPT ![listing_id] = mark_sold(@)]
                /\ events' = Append(events, event)
                /\ event_ids' = event_ids + 1
                /\ published' = Publish(Channel(listings[listing_id].h3_index), event)
                /\ response' = Resp("sold", user, listing_id, AfterPublish(200), "SOLD",
                                    NoAcceptances, {}, 0)
    /\ UNCHANGED <<saves, saved_at, matches, heat, broker_up, now, json_tracked, streamvars,
                   requests>>

\* The handler of GET /v2/listings/{listing_id}.
get_listing(user, listing_id) ==
    /\ IF listing_id \notin ListingIds
       THEN /\ response' = Resp("view", user, listing_id, 404, "",
                                NoAcceptances, {}, 0)
            /\ UNCHANGED listings
       ELSE IF listings[listing_id].user_id # user
       THEN /\ listings[listing_id].view_count < MaxViews
            /\ listings' = [listings EXCEPT ![listing_id] = Listing_record_view(@)]
            /\ response' = Resp("view", user, listing_id, 200,
                                listings[listing_id].status, NoAcceptances, {},
                                listings'[listing_id].view_count)
       ELSE /\ response' = Resp("view", user, listing_id, 200,
                                listings[listing_id].status, NoAcceptances, {},
                                listings[listing_id].view_count)
            /\ UNCHANGED listings
    /\ UNCHANGED <<saves, matches, now, json_tracked, feedvars, streamvars, requests>>

save_listing(user, listing_id) ==
    /\ IF listing_id \notin ListingIds
       THEN /\ response' = Resp("save", user, listing_id, 404, "",
                                NoAcceptances, {}, 0)
            /\ UNCHANGED <<listings, saves, saved_at>>
       ELSE IF <<user, listing_id>> \in saves
       THEN /\ response' = Resp("save", user, listing_id, 400, "",
                                NoAcceptances, {}, 0)
            /\ UNCHANGED <<listings, saves, saved_at>>
       ELSE /\ saves' = saves \cup {<<user, listing_id>>}
            /\ saved_at' = [s \in saves' |->
                               IF s \in saves THEN saved_at[s] ELSE now]
            /\ listings' = [listings EXCEPT ![listing_id] = record_save(@)]
            /\ response' = Resp("save", user, listing_id, 200, "",
                                NoAcceptances, {},
                                listings'[listing_id].save_count)
    /\ UNCHANGED <<matches, heat, events, event_ids, published, broker_up, now,
                   json_tracked, streamvars, requests>>

unsave_listing(user, listing_id) ==
    /\ IF <<user, listing_id>> \notin saves
       THEN /\ response' = Resp("unsave", user, listing_id, 404, "",
                                NoAcceptances, {}, 0)
            /\ UNCHANGED <<listings, saves, saved_at>>
       ELSE /\ saves' = saves \ {<<user, listing_id>>}
            /\ saved_at' = [s \in saves' |-> saved_at[s]]
            /\ listings' = [listings EXCEPT
                                ![listing_id].save_count = Max(0, @ - 1)]
            /\ response' = Resp("unsave", user, listing_id, 200, "",
                                NoAcceptances, {}, 0)
    /\ UNCHANGED <<matches, heat, events, event_ids, published, broker_up, now,
                   json_tracked, streamvars, requests>>

drop_listing_price(user, listing_id, new_price) ==
    /\ IF listing_id \notin ListingIds
       THEN /\ response' = Resp("price-drop", user, listing_id, 404, "",
                                NoAcceptances, {}, 0)
            /\ UNCHANGED <<listings, events, event_ids, published>>
       ELSE IF listings[listing_id].user_id # user
       THEN /\ response' = Resp("price-drop", user, listing_id, 403, "",
                                NoAcceptances, {}, 0)
            /\ UNCHANGED <<listings, events, event_ids, published>>
       ELSE IF ~CanDrop(listings[listing_id], new_price)
       THEN /\ response' = Resp("price-drop", user, listing_id, 400, "",
                                NoAcceptances, {}, 0)
            /\ UNCHANGED <<listings, events, event_ids, published>>
       ELSE LET event == FeedEvent("PRICE_DROP", listing_id, user,
                                   listings[listing_id].h3_index)
            IN  /\ Len(events) < MaxEvents
                /\ listings' = [listings EXCEPT
                                    ![listing_id] = StoredListing(drop_price(@, new_price))]
                /\ events' = Append(events, event)
                /\ event_ids' = event_ids + 1
                /\ published' = Publish(Channel(listings[listing_id].h3_index), event)
                /\ response' = Resp("price-drop", user, listing_id, AfterPublish(200),
                                    listings[listing_id].status, NoAcceptances,
                                    {}, new_price)
    /\ UNCHANGED <<saves, saved_at, matches, heat, broker_up, now, json_tracked,
                   streamvars, requests>>

\* The handler of POST /v2/listings: the listing gets a fresh id.
NextListingId ==
    IF ListingIds = {} THEN 1
    ELSE 1 + CHOOSE l \in ListingIds : \A m \in ListingIds : m <= l

create_listing(user, lat, lng, price, trade_intent) ==
    LET listing_id == NextListingId
        listing == StoredListing(set_h3_indexes(
                                 ListingRow(user, trade_intent, price, now,
                                            now + ListingTTLDays), lat, lng))
        event == FeedEvent("NEW_LISTING", listing_id, user, listing.h3_index)
    IN  /\ Cardinality(ListingIds) < MaxListings
        /\ Len(events) < MaxEvents
        /\ listings' = [l \in ListingIds \cup {listing_id} |->
                           IF l = listing_id THEN listing ELSE listings[l]]
        /\ events' = Append(events, event)
        /\ event_ids' = event_ids + 1
        /\ published' = Publish(Channel(listing.h3_index), event)
        /\ response' = Resp("create", user, listing_id, AfterPublish(201), "ACTIVE",
                            NoAcceptances, {}, 0)
        /\ UNCHANGED <<saves, saved_at, matches, heat, broker_up, now,
                       json_tracked, streamvars, requests>>

\* Listing.mark_traded, called on a stored listing (no handler under
\* services/routers calls it).
MarkTraded(listing_id) ==
    /\ listing_id \in ListingIds
    /\ listings' = [listings EXCEPT ![listing_id] = mark_traded(@)]
    /\ response' = Resp("mark_traded", NoUser, listing_id, 200, "TRADED",
                        NoAcceptances, {}, 0)
    /\ UNCHANGED <<saves, matches, now, json_tracked, feedvars, streamvars, requests>>

----------------------------------------------------------------------------
\* NeighborhoodHeatIndex (services/models/heat_index.py)

\* A velocity is a fraction, events per hour; NoVelocity is None.
NoVelocity == <<>>

OrZero(v) == IF v = NoVelocity THEN <<0, 1>> ELSE v

Times(v, weight) == <<OrZero(v)[1] * weight, OrZero(v)[2]>>

HeatScoreUncapped(h) ==
    RatSum(<<Times(h.save_velocity, 25), Times(h.dm_velocity, 30),
             Times(h.trade_request_velocity, 20), Times(h.listing_velocity, 15),
             Times(h.view_velocity, 10)>>)

\* lines 125-134: the weighted sum, capped at 100
HeatScore(h) == RatMin(<<100, 1>>, HeatScoreUncapped(h))

HeatLevelExclusive(heat_score) ==
    IF RatLess(<<80, 1>>, heat_score) THEN "fire"
    ELSE IF RatLess(<<60, 1>>, heat_score) THEN "hot"
    ELSE IF RatLess(<<30, 1>>, heat_score) THEN "warm"
    ELSE "cold"

\* lines 136-144
HeatLevel(heat_score) ==
    IF RatLeq(<<80, 1>>, heat_score) THEN "fire"
    ELSE IF RatLeq(<<60, 1>>, heat_score) THEN "hot"
    ELSE IF RatLeq(<<30, 1>>, heat_score) THEN "warm"
    ELSE "cold"

compute_heat_score(h) ==
    [h EXCEPT !.heat_score = HeatScore(h),
              !.heat_level = HeatLevel(HeatScore(h))]

\* NeighborhoodHeatIndex.set_h3_indexes with coordinates: the cell of the
\* point and its parents.
heat_set_h3_indexes(row, lat, lng) ==
    LET h3_index == geo_to_h3(lat, lng, 9)
    IN  [row EXCEPT !.h3_index = h3_index,
                    !.h3_index_r8 = h3_to_parent(h3_index, 8),
                    !.h3_index_r7 = h3_to_parent(h3_index, 7)]

\* The row get_or_create adds for a cell that has none, as stored.
HeatRow(h3_index) ==
    LET geo == h3_to_geo(h3_index)
    IN  heat_set_h3_indexes(
            [h3_index |-> h3_index, h3_index_r8 |-> NoCell, h3_index_r7 |-> NoCell,
             save_velocity |-> <<0, 1>>, dm_velocity |-> <<0, 1>>,
             trade_request_velocity |-> <<0, 1>>, listing_velocity |-> <<0, 1>>,
             view_velocity |-> <<0, 1>>, active_listings |-> 0,
             heat_score |-> <<0, 1>>, heat_level |-> "cold",
             window_start |-> now - HeatWindowDays, window_end |-> now],
            geo[1], geo[2])

\* NeighborhoodHeatIndex.get_or_create on the rows table
get_or_create(table, h3_index) ==
    IF h3_index \in DOMAIN table
    THEN table
    ELSE [c \in DOMAIN table \cup {h3_index} |->
             IF c = h3_index THEN HeatRow(h3_index) ELSE table[c]]

\* The handler of GET /heat-index.
get_neighborhood_heat(lat, lng) ==
    LET h3_index == geo_to_h3(lat, lng, 9)
    IN  /\ heat' = get_or_create(heat, h3_index)
        /\ response' = Resp("heat-index", NoUser, NoMatch, 200,
                            heat'[h3_index].heat_level, NoAcceptances, {}, 0)
        /\ UNCHANGED <<listings, saves, saved_at, matches, events, event_ids,
                       published, broker_up, now, json_tracked, streamvars,
                       requests>>

----------------------------------------------------------------------------
\* update_heat_indexes (worker/feed_tasks.py)

\* The cells a pass works on: the ones it is given, or the cells of the
\* active listings created in the window.
HexesToUpdate(scope) ==
    IF scope # {} THEN scope
    ELSE {listings[l].h3_index : l \in
             {l \in ListingIds : /\ listings[l].status = "ACTIVE"
                                 /\ listings[l].created_at >= now - HeatWindowDays}}

\* The row of cell hex_id after lines 168-259.
UpdatedHeat(table, hex_id) ==
    LET window_start == now - HeatWindowDays
        heat_index == get_or_create(table, hex_id)[hex_id]
        active_listings ==
            Cardinality({l \in ListingIds : /\ listings[l].h3_index = hex_id
                                            /\ listings[l].status = "ACTIVE"})
        new_listings ==
            Cardinality({l \in ListingIds : /\ listings[l].h3_index = hex_id
                                            /\ listings[l].created_at >= window_start})
        saves_count ==
            Cardinality({sv \in saves : /\ listings[sv[2]].h3_index = hex_id
                                        /\ saved_at[sv] >= window_start})
        trade_requests ==
            Cardinality({i \in DOMAIN events :
                            /\ events[i].h3_index = hex_id
                            /\ events[i].created_at >= window_start
                            /\ events[i].event_type = "TRADE_REQUEST"})
    IN  compute_heat_score(
            [heat_index EXCEPT
                !.listing_velocity = Rat(new_listings, Hours),
                !.save_velocity = Rat(saves_count, Hours),
                !.dm_velocity = Rat(trade_requests, Hours),
                !.trade_request_velocity = Rat(trade_requests, Hours),
                !.view_velocity = <<0, 1>>,
                !.active_listings = active_listings,
                !.window_start = window_start,
                !.window_end = now])

update_heat_indexes(scope) ==
    /\ heat' = [c \in DOMAIN heat \cup HexesToUpdate(scope) |->
                   IF c \in HexesToUpdate(scope) THEN UpdatedHeat(heat, c)
                   ELSE heat[c]]
    /\ response' = Resp("update_heat_indexes", NoUser, NoMatch, 200, "",
                        NoAcceptances, {}, Cardinality(HexesToUpdate(scope)))
    /\ UNCHANGED <<listings, saves, saved_at, matches, events, event_ids,
                   published, broker_up, now, json_tracked, streamvars, requests>>

\* The row of cell hex_id in the session of a pass that has assigned the
\* velocities and active_listings (lines 168-209) and not yet the window and
\* the heat score (255-259).
HalfUpdatedHeat(table, hex_id) ==
    LET heat_index == get_or_create(table, hex_id)[hex_id]
    IN  [UpdatedHeat(table, hex_id) EXCEPT
            !.window_start = heat_index.window_start,
            !.window_end = heat_index.window_end,
            !.heat_score = heat_index.heat_score,
            !.heat_level = heat_index.heat_level]

\* The rows in the session of a pass that has finished the cells done and
\* is in the middle of the cells half.
PendingHeat(done, half) ==
    [c \in DOMAIN heat \cup done \cup half |->
        IF c \in done THEN UpdatedHeat(heat, c)
        ELSE IF c \in half THEN HalfUpdatedHeat(heat, c)
        ELSE heat[c]]

SessionFlushed(stored, pending) == pending

\* The table after `with Session() as db:` is left by an exception: the one
\* db.commit() of the pass (line 261) has not run or has failed, and the
\* closing session rolls its transaction back.
SessionClosed(stored, pending) == stored

\* A pass that raises at some point: after the cells done, in the middle of
\* at most one further cell, or at the commit.  The except clause logs the
\* error and asks for a retry (self.retry(exc=e, countdown=60)).
update_heat_indexes_fails(scope, done, half) ==
    /\ done \subseteq HexesToUpdate(scope)
    /\ half \subseteq HexesToUpdate(scope) \ done
    /\ Cardinality(half) <= 1
    /\ heat' = SessionClosed(heat, PendingHeat(done, half))
    /\ response' = Resp("update_heat_indexes", NoUser, NoMatch, 500, "retry",
                        NoAcceptances, {}, Cardinality(done \cup half))
    /\ UNCHANGED <<listings, saves, saved_at, matches, events, event_ids,
                   published, broker_up, now, json_tracked, streamvars, requests>>

----------------------------------------------------------------------------
\* compute_listing_rankings (worker/feed_tasks.py)

\* The listings a pass ranks: the active ones, of the given cells if any.
ToRank(scope) ==
    {l \in ListingIds : /\ listings[l].status = "ACTIVE"
                        /\ scope # {} => listings[l].h3_index \in scope}

\* max((... for listing in listings), default=1) or 1
MaxOr1(counts) ==
    IF counts = {} THEN 1
    ELSE LET top == CHOOSE c \in counts : \A d \in counts : d <= c
         IN  IF top = 0 THEN 1 ELSE top

EngagementScore(l, batch) ==
    LET max_saves == MaxOr1({listings[b].save_count : b \in batch})
        max_messages == MaxOr1({listings[b].message_count : b \in batch})
        max_views == MaxOr1({listings[b].view_count : b \in batch})
    IN  RatSum(<<Rat(listings[l].save_count * 15, max_saves),
                 Rat(listings[l].message_count * 10, max_messages),
                 Rat(listings[l].view_count * 5, max_views)>>)

DemandScore(l) ==
    IF listings[l].h3_index \in DOMAIN heat
    THEN LET heat_score == heat[listings[l].h3_index].heat_score
         IN  Rat(heat_score[1] * 20, heat_score[2] * 100)
    ELSE <<0, 1>>

FreshnessUnfloored(l) ==
    LET age_hours == (now - listings[l].created_at) * Hours
    IN  Rat(10 * (FreshHours - age_hours), FreshHours)

\* max(0, 10 * (1 - age_hours / 168))
FreshnessScore(l) ==
    LET age_hours == (now - listings[l].created_at) * Hours
    IN  RatMax(<<0, 1>>, Rat(10 * (FreshHours - age_hours), FreshHours))

PriceDropBonusUncapped(l) ==
    LET drop_percent == get_price_drop_percent(listings[l])
    IN  IF Truthy(listings[l].original_price) /\ Truthy(listings[l].price)
               /\ RatLess(<<10, 1>>, drop_percent)
        THEN Rat(drop_percent[1], drop_percent[2] * 5)
        ELSE <<0, 1>>

PriceDropBonus(l) ==
    LET drop_percent == get_price_drop_percent(listings[l])
    IN  IF Truthy(listings[l].original_price) /\ Truthy(listings[l].price)
               /\ RatLess(<<10, 1>>, drop_percent)
        THEN RatMin(<<5, 1>>, Rat(drop_percent[1], drop_percent[2] * 5))
        ELSE <<0, 1>>

RankScore(l, batch) ==
    RatSum(<<EngagementScore(l, batch),
             DemandScore(l),
             FreshnessScore(l),
             Rat(listings[l].authenticity_score, 10),
             IF listings[l].is_verified THEN <<5, 1>> ELSE <<0, 1>>,
             PriceDropBonus(l)>>)

compute_listing_rankings(scope) ==
    /\ listings' = [l \in ListingIds |->
                       IF l \in ToRank(scope)
                       THEN [listings[l] EXCEPT
                                !.rank_score = RankScore(l, ToRank(scope)),
                                !.demand_score = DemandScore(l)]
                       ELSE listings[l]]
    /\ response' = Resp("compute_listing_rankings", NoUser, NoMatch, 200, "",
                        NoAcceptances, ToRank(scope), Cardinality(ToRank(scope)))
    /\ UNCHANGED <<saves, matches, now, json_tracked, feedvars, streamvars, requests>>

----------------------------------------------------------------------------
\* cleanup_expired_feed_data (worker/feed_tasks.py)

ExpiredMatches ==
    {i \in MatchIds :
        /\ matches[i].expires_at # NoExpiry
        /\ matches[i].expires_at < now
        /\ matches[i].status \in {"SUGGESTED", "VIEWED", "PENDING"}}

ExpiredListings ==
    {l \in ListingIds :
        /\ listings[l].expires_at # NoExpiry
        /\ listings[l].expires_at < now
        /\ listings[l].status = "ACTIVE"}

\* FeedEvent.created_at < now - timedelta(days=7)
ExpiredEvents ==
    {i \in DOMAIN events : events[i].created_at < now - EventRetentionDays}

cleanup_expired_feed_data ==
    /\ events' = SelectSeq(events, LAMBDA e : ~(e.created_at < now - EventRetentionDays))
    /\ matches' = [i \in MatchIds |->
                      IF i \in ExpiredMatches
                      THEN [matches[i] EXCEPT !.status = "EXPIRED"]
                      ELSE matches[i]]
    /\ listings' = [l \in ListingIds |->
                       IF l \in ExpiredListings
                       THEN [listings[l] EXCEPT !.status = "EXPIRED"]
                       ELSE listings[l]]
    /\ response' = Resp("cleanup", NoUser, NoMatch, 200, "", NoAcceptances, {},
                        Cardinality(ExpiredEvents) + Cardinality(ExpiredMatches)
                            + Cardinality(ExpiredListings))
    /\ UNCHANGED <<saves, saved_at, heat, event_ids, published, broker_up, now, json_tracked,
                   streamvars, requests>>

----------------------------------------------------------------------------
\* Time.  The clock moves from one instant at which a comparison with an
\* expires_at or the retention of an event can change (that day, and the
\* day after it) to a later one.

Instants ==
    LET ends == {matches[i].expires_at : i \in MatchIds}
                    \cup {listings[l].expires_at : l \in ListingIds}
                    \cup {events[i].created_at + EventRetentionDays : i \in DOMAIN events}
                    \cup {events[i].expires_at : i \in DOMAIN events}
    IN  {t \in ends \cup {e + 1 : e \in ends} : t > now /\ t <= MaxTime}

TimePasses ==
    /\ \E t \in Instants : now' = t
    /\ response' = NoResponse
    /\ UNCHANGED <<listings, saves, matches, json_tracked, feedvars, streamvars, requests>>

----------------------------------------------------------------------------
\* The acceptance protocol: two users who have saved each other's listing
\* (listings 1 and 3) and a third user who takes no part.

ProtocolListings == {1, 3, 5}

\* No heat-index row, no feed event, nothing published, the broker up, no
\* websocket and no request in flight.
Quiet ==
    /\ saved_at = [s \in saves |-> 0]
    /\ heat = <<>>
    /\ events = <<>>
    /\ event_ids = 0
    /\ published = <<>>
    /\ broker_up = TRUE
    /\ active_connections = <<>>
    /\ pubsub = <<>>
    /\ sockets = <<>>
    /\ requests = <<>>

Init ==
    /\ saves = {<<1, 3>>, <<2, 1>>}
    /\ listings = Saved([l \in ProtocolListings |-> World[l]], saves)
    /\ Quiet
    /\ matches = <<>>
    /\ now = 0
    /\ json_tracked \in BOOLEAN
    /\ response = NoResponse

Next ==
    \/ \E scope \in Users \cup {NoUser} : find_trade_matches(scope)
    \/ \E user \in Users, f \in MatchStatus \cup {""}, limit \in {1, DefaultLimit} :
           get_trade_matches(user, f, limit)
    \/ \E user \in Users, m \in MatchIds \cup {Len(matches) + 1} :
           accept_trade_match(user, m)
    \/ \E user \in Users, m \in MatchIds \cup {Len(matches) + 1} :
           decline_trade_match(user, m)
    \/ \E user \in Users, m \in MatchIds : RecordView(user, m)
    \/ \E m \in MatchIds : Complete(m)
    \/ cleanup_expired_feed_data
    \/ TimePasses

Spec == Init /\ [][Next]_vars

----------------------------------------------------------------------------
\* The listing lifecycle: the listings of the world, of which listing 2
\* expires, and no saves.

InitListing ==
    /\ listings = [l \in {1, 2, 3} |-> World[l]]
    /\ saves = {}
    /\ Quiet
    /\ matches = <<>>
    /\ now = 0
    /\ json_tracked \in BOOLEAN
    /\ response = NoResponse

NextListing ==
    \/ \E user \in Users, l \in ListingIds \cup {0} : mark_listing_sold(user, l)
    \/ \E l \in ListingIds : MarkTraded(l)
    \/ cleanup_expired_feed_data
    \/ TimePasses

SpecListing == InitListing /\ [][NextListing]_vars

----------------------------------------------------------------------------
\* Discovery: the six listings of the world and any set of at most MaxSaves
\* saves among those below: every save between users 1 and 2, the saves of a
\* cycle over the three users, a save of one's own listing and a save of the
\* listing that is for sale only.

CandidateSaves ==
    {<<1, 1>>, <<1, 3>>, <<1, 4>>, <<1, 5>>, <<1, 6>>,
     <<2, 1>>, <<2, 2>>, <<2, 5>>, <<3, 1>>, <<3, 3>>}

InitDiscovery ==
    /\ saves \in {S \in SUBSET CandidateSaves : Cardinality(S) <= MaxSaves}
    /\ listings = Saved(World, saves)
    /\ Quiet
    /\ matches = <<>>
    /\ now = 0
    /\ json_tracked \in BOOLEAN
    /\ response = NoResponse

NextDiscovery ==
    \/ \E scope \in Users \cup {NoUser} : find_trade_matches(scope)
    \/ cleanup_expired_feed_data
    \/ TimePasses

SpecDiscovery == InitDiscovery /\ [][NextDiscovery]_vars

----------------------------------------------------------------------------
\* The feed: listings 1 and 3 of one cell, seen, saved and messaged by the
\* users, repriced and sold by their owners, and the ranking pass.  The cell
\* has a heat-index row that an earlier heat pass has left at the cap.

\* Listing.record_message, called on a stored listing (no handler under
\* services/routers calls it).
RecordMessage(listing_id) ==
    /\ listing_id \in ListingIds
    /\ listings[listing_id].message_count < MaxViews
    /\ listings' = [listings EXCEPT ![listing_id] = record_message(@)]
    /\ response' = Resp("record_message", NoUser, listing_id, 200, "",
                        NoAcceptances, {}, listings'[listing_id].message_count)
    /\ UNCHANGED <<saves, matches, now, json_tracked, feedvars, streamvars, requests>>

\* The row of cell c as a heat pass that counted 24 * v saves has left it.
SeedHeat(c, v) == compute_heat_score([HeatRow(c) EXCEPT !.save_velocity = v])

HeatSeeds ==
    {<<>>} \cup {[c \in {<<0, 0>>} |-> SeedHeat(c, v)] :
                    v \in {<<1, 24>>, <<6, 5>>, <<5, 1>>}}

FeedSaves == {<<2, 1>>, <<3, 1>>, <<3, 3>>}

InitFeed ==
    /\ now = 0
    /\ listings = [l \in {1, 3} |-> World[l]]
    /\ saves = {}
    /\ saved_at = <<>>
    /\ matches = <<>>
    /\ heat \in {h \in HeatSeeds : h # <<>> /\ h[<<0, 0>>].heat_level = "fire"}
    /\ events = <<>>
    /\ event_ids = 0
    /\ published = <<>>
    /\ broker_up = TRUE
    /\ active_connections = <<>>
    /\ pubsub = <<>>
    /\ sockets = <<>>
    /\ requests = <<>>
    /\ json_tracked = FALSE
    /\ response = NoResponse

NextFeed ==
    \/ \E user \in {1, 2}, l \in {1, 9} : get_listing(user, l)
    \/ \E s \in FeedSaves \cup {<<2, 9>>} :
           /\ s[2] \in ListingIds => listings[s[2]].demand_score[1] < MaxDemand
           /\ save_listing(s[1], s[2])
    \/ \E s \in FeedSaves : unsave_listing(s[1], s[2])
    \/ \E l \in {1} :
           /\ listings[l].demand_score[1] < MaxDemand
           /\ RecordMessage(l)
    \/ \E user \in {1, 2}, l \in {1, 9}, new_price \in {50, 95, 100} :
           drop_listing_price(user, l, new_price)
    \/ \E user \in {1, 2}, l \in {3, 9} : mark_listing_sold(user, l)
    \/ \E scope \in {{}, {<<0, 5>>}} : compute_listing_rankings(scope)

SpecFeed == InitFeed /\ [][NextFeed]_vars

----------------------------------------------------------------------------
\* The ranking pass on seeded listings (services/seed_listings.py): listings
\* 1 and 6, in neighbouring cells, with the counters, prices, ages and
\* authenticity the seeding gave them, and heat rows of earlier heat passes.
\* A listing seeded less than two days old has its NEW_LISTING event.

SeedCreated == [l \in {1, 6} |-> IF l = 1 THEN {0, 5, 8} ELSE {1, 5}]

\* <<view_count, message_count>>
SeedCounters == [l \in {1, 6} |-> IF l = 1 THEN {<<0, 0>>, <<2, 1>>}
                                            ELSE {<<0, 0>>, <<1, 1>>}]

\* <<price, original_price>>
SeedPrices == [l \in {1, 6} |->
                  IF l = 1 THEN {<<100, NoPrice>>, <<85, 100>>, <<50, 100>>, <<0, 100>>}
                  ELSE {<<80, NoPrice>>}]

\* <<authenticity_score, is_verified>>
SeedQuality == [l \in {1, 6} |-> IF l = 1 THEN {<<100, TRUE>>}
                                           ELSE {<<0, FALSE>>, <<100, TRUE>>}]

SeedRows(l) ==
    {[World[l] EXCEPT !.created_at = created,
                      !.view_count = counters[1],
                      !.message_count = counters[2],
                      !.price = prices[1],
                      !.original_price = prices[2],
                      !.authenticity_score = quality[1],
                      !.is_verified = quality[2]] :
     created \in SeedCreated[l], counters \in SeedCounters[l],
     prices \in SeedPrices[l], quality \in SeedQuality[l]}

SeedListings ==
    {[l \in {1, 6} |-> IF l = 1 THEN a ELSE b] : a \in SeedRows(1), b \in SeedRows(6)}

RankingSaves == {<<2, 1>>, <<3, 1>>, <<2, 6>>}

InitRanking ==
    /\ now = 8
    /\ saves \in SUBSET RankingSaves
    /\ saved_at = [s \in saves |-> 0]
    /\ \E rows \in SeedListings : listings = Saved(rows, saves)
    /\ matches = <<>>
    /\ heat \in {[c \in D |-> SeedHeat(c, v[c])] :
                     D \in SUBSET {<<0, 0>>, <<0, 1>>},
                     v \in [{<<0, 0>>, <<0, 1>>} -> {<<6, 5>>, <<5, 1>>}]}
    /\ event_ids = Cardinality({l \in ListingIds : listings[l].created_at > now - 2})
    /\ events = IF event_ids = 0 THEN <<>>
                ELSE <<[FeedEvent("NEW_LISTING", 1, listings[1].user_id,
                                  listings[1].h3_index) EXCEPT !.id = 1]>>
    /\ published = <<>>
    /\ broker_up = TRUE
    /\ active_connections = <<>>
    /\ pubsub = <<>>
    /\ sockets = <<>>
    /\ requests = <<>>
    /\ json_tracked = FALSE
    /\ response = NoResponse

NextRanking ==
    \E scope \in {{}, {<<0, 0>>}, {<<0, 5>>}} : compute_listing_rankings(scope)

SpecRanking == InitRanking /\ [][NextRanking]_vars

----------------------------------------------------------------------------
\* Requests served by several worker processes, each in a database session of
\* its own (READ COMMITTED): a handler first loads the listing row
\* (db.query(Listing)...first()), then changes the loaded object and commits.
\* Listing.record_view and record_save assign the loaded value plus one
\* (self.view_count += 1), so the UPDATE of the commit carries that value.
\* The ranking pass writes rank_score and demand_score only.

\* get_listing and save_listing up to the changes: the row and the saves the
\* request has read.
Load(op, user, listing_id) ==
    /\ Len(requests) < MaxRequests
    /\ listing_id \in ListingIds
    /\ requests' = Append(requests,
                          [op |-> op, user |-> user, target |-> listing_id,
                           row |-> listings[listing_id],
                           existing |-> <<user, listing_id>> \in saves,
                           phase |-> "loaded", code |-> 0])
    /\ UNCHANGED <<listings, saves, matches, now, json_tracked, feedvars,
                   streamvars, response>>

\* get_listing from record_view to the response (feed_v2.py, 543-580)
CommitView(r) ==
    /\ requests[r].phase = "loaded" /\ requests[r].op = "view"
    /\ listings' =
           IF requests[r].row.user_id # requests[r].user
           THEN [listings EXCEPT ![requests[r].target].view_count =
                                     Listing_record_view(requests[r].row).view_count]
           ELSE listings
    /\ requests' = [requests EXCEPT ![r].phase = "done", ![r].code = 200]
    /\ response' = Resp("view", requests[r].user, requests[r].target, 200, "",
                        NoAcceptances, {}, 0)
    /\ UNCHANGED <<saves, matches, now, json_tracked, feedvars, streamvars>>

NoUniqueIndex(save) == FALSE

\* Index('ix_listing_saves_unique', user_id, listing_id, unique=True): the
\* INSERT of a second row for the same user and listing fails.
UniqueViolation(save) == save \in saves

\* save_listing from the lookup of an existing save to the response
\* (feed_v2.py, 594-616); the unique index refuses a second row for the
\* same user and listing at the commit.
CommitSave(r) ==
    LET req == requests[r]
        save == <<req.user, req.target>>
    IN  /\ req.phase = "loaded" /\ req.op = "save"
        /\ IF req.existing
           THEN /\ requests' = [requests EXCEPT ![r].phase = "done", ![r].code = 400]
                /\ UNCHANGED <<listings, saves, saved_at>>
           ELSE IF UniqueViolation(save)
           THEN /\ requests' = [requests EXCEPT ![r].phase = "done", ![r].code = 500]
                /\ UNCHANGED <<listings, saves, saved_at>>
           ELSE /\ requests' = [requests EXCEPT ![r].phase = "done", ![r].code = 200]
                /\ saves' = saves \cup {save}
                /\ saved_at' = [s \in saves' |-> IF s = save THEN now ELSE saved_at[s]]
                /\ listings' = [listings EXCEPT
                                   ![req.target].save_count = record_save(req.row).save_count,
                                   ![req.target].demand_score = record_save(req.row).demand_score]
        /\ response' = Resp("save", req.user, req.target, requests'[r].code, "",
                            NoAcceptances, {}, 0)
        /\ UNCHANGED <<matches, now, json_tracked, heat, events, event_ids,
                       published, broker_up, streamvars>>

\* unsave_listing from db.delete(save) to the response (feed_v2.py,
\* 631-643): the DELETE of a row that another request has deleted meanwhile
\* matches no row, and the count written is the loaded one less one.
CommitUnsave(r) ==
    LET req == requests[r]
        save == <<req.user, req.target>>
    IN  /\ req.phase = "loaded" /\ req.op = "unsave"
        /\ IF ~req.existing
           THEN /\ requests' = [requests EXCEPT ![r].phase = "done", ![r].code = 404]
                /\ UNCHANGED <<listings, saves, saved_at>>
           ELSE /\ requests' = [requests EXCEPT ![r].phase = "done", ![r].code = 200]
                /\ saves' = saves \ {save}
                /\ saved_at' = [s \in saves' |-> saved_at[s]]
                /\ listings' = [listings EXCEPT
                                   ![req.target].save_count = Max(0, req.row.save_count - 1)]
        /\ response' = Resp("unsave", req.user, req.target, requests'[r].code, "",
                            NoAcceptances, {}, 0)
        /\ UNCHANGED <<matches, now, json_tracked, heat, events, event_ids,
                       published, broker_up, streamvars>>

InitCounters ==
    /\ listings = [l \in {1} |-> World[l]]
    /\ saves = {}
    /\ matches = <<>>
    /\ now = 0
    /\ json_tracked = FALSE
    /\ response = NoResponse
    /\ Quiet

NextCounters ==
    \/ \E op \in {"view", "save"}, user \in Users : Load(op, user, 1)
    \/ \E r \in DOMAIN requests : CommitView(r)
    \/ \E r \in DOMAIN requests : CommitSave(r)
    \/ compute_listing_rankings({})

SpecCounters == InitCounters /\ [][NextCounters]_vars

\* Save and unsave requests of two users on one listing, served one after
\* the other or by several processes at once; user 1 may have saved the
\* listing before.
InitSaves ==
    /\ saves \in {{}, {<<1, 1>>}}
    /\ listings = Saved([l \in {1} |-> World[l]], saves)
    /\ matches = <<>>
    /\ now = 0
    /\ json_tracked = FALSE
    /\ response = NoResponse
    /\ Quiet

NextSaves ==
    \/ \E op \in {"save", "unsave"}, user \in {1, 2} : Load(op, user, 1)
    \/ \E r \in DOMAIN requests : CommitSave(r)
    \/ \E r \in DOMAIN requests : CommitUnsave(r)

SpecSaves == InitSaves /\ [][NextSaves]_vars

----------------------------------------------------------------------------
\* The heat index: rows created lazily by GET /heat-index, recomputed by the
\* heat pass from the store, and recomputed in windows busier than the three
\* users of the model can make them: the velocities are then given, and the
\* pass assigns them and calls compute_heat_score (feed_tasks.py, 202-259;
\* seed_listings.py, 288-305, which leaves the velocities it does not set as
\* the constructor left them).

Velocities(save, dm, trade_request, listing, view) ==
    [save_velocity |-> save, dm_velocity |-> dm,
     trade_request_velocity |-> trade_request, listing_velocity |-> listing,
     view_velocity |-> view]

BusyWindows ==
    LET o == <<0, 1>>
        i == <<1, 1>>
    IN  {Velocities(o, o, o, o, o), Velocities(i, o, o, o, o),
         Velocities(o, i, o, o, o), Velocities(o, o, i, o, o),
         Velocities(o, o, o, i, o), Velocities(o, o, o, o, i),
         Velocities(NoVelocity, NoVelocity, NoVelocity, i, NoVelocity),
         Velocities(<<6, 5>>, o, o, o, o), Velocities(o, <<2, 1>>, o, o, o),
         Velocities(o, <<2, 1>>, i, o, o), Velocities(<<2, 1>>, <<2, 1>>, o, o, o)}

HeatPassWith(hex_id, v) ==
    /\ heat' = [c \in DOMAIN heat \cup {hex_id} |->
                   IF c = hex_id
                   THEN compute_heat_score(
                            [get_or_create(heat, hex_id)[hex_id] EXCEPT
                                !.save_velocity = v.save_velocity,
                                !.dm_velocity = v.dm_velocity,
                                !.trade_request_velocity = v.trade_request_velocity,
                                !.listing_velocity = v.listing_velocity,
                                !.view_velocity = v.view_velocity,
                                !.window_start = now - HeatWindowDays,
                                !.window_end = now])
                   ELSE heat[c]]
    /\ response' = Resp("update_heat_indexes", NoUser, NoMatch, 200, "",
                        NoAcceptances, {}, 1)
    /\ UNCHANGED <<listings, saves, saved_at, matches, events, event_ids,
                   published, broker_up, now, json_tracked, streamvars, requests>>

InitHeat ==
    /\ listings = [l \in {1, 3} |-> World[l]]
    /\ saves = {}
    /\ matches = <<>>
    /\ now = 0
    /\ json_tracked = FALSE
    /\ response = NoResponse
    /\ Quiet

NextHeat ==
    \/ \E lat \in {0, 1} : get_neighborhood_heat(lat, 0)
    \/ \E scope \in {{}, {<<0, 1>>}} : update_heat_indexes(scope)
    \/ \E hex_id \in {<<0, 0>>, <<0, 1>>}, v \in BusyWindows : HeatPassWith(hex_id, v)
    \/ \E user \in {2}, l \in {1, 3} : save_listing(user, l)

SpecHeat == InitHeat /\ [][NextHeat]_vars

----------------------------------------------------------------------------
\* The activity stream (services/routers/activity_stream.py).  A websocket ws
\* has the client's side in sockets[ws] (where the client is, whether the
\* connection is open), the ConnectionManager's entry active_connections[ws]
\* and the channels its pubsub object is subscribed to at the broker,
\* pubsub[ws].  The radius is in tenths of a mile.  A call to the broker
\* raises exactly when the broker is down, and a broker that goes down loses
\* every subscription.

\* k = int(radius * 0.8)
RingSize(radius) == (radius * 8) \div 100

\* The channels of the resolution-7 disk around a point.
DiskChannels(lat, lng, k) == {Channel(c) : c \in k_ring(geo_to_h3(lat, lng, 7), k)}

ChannelsWithoutOwnCells(lat, lng, radius) == DiskChannels(lat, lng, RingSize(radius))

\* lines 91-103: the channel set of a new connection
ConnectChannels(lat, lng, radius) ==
    DiskChannels(lat, lng, RingSize(radius))
        \cup {Channel(geo_to_h3(lat, lng, 8)), Channel(geo_to_h3(lat, lng, 9))}

Without(f, x) == [y \in DOMAIN f \ {x} |-> f[y]]

With(f, x, v) == [y \in DOMAIN f \cup {x} |-> IF y = x THEN v ELSE f[y]]

disconnect_never(conns, websocket) == conns

\* ConnectionManager.disconnect
disconnect(conns, websocket) ==
    IF websocket \in DOMAIN conns THEN Without(conns, websocket) ELSE conns

\* The finally block: manager.disconnect, then pubsub.unsubscribe() and
\* pubsub.close(), whose exceptions are dropped.
Cleanup(websocket, reason) ==
    /\ active_connections' = disconnect(active_connections, websocket)
    /\ pubsub' = IF broker_up /\ websocket \in DOMAIN pubsub
                 THEN Without(pubsub, websocket) ELSE pubsub
    /\ sockets' = [sockets EXCEPT ![websocket].status = "closed"]
    /\ response' = Resp(reason, websocket, NoMatch, 0, "closed", NoAcceptances, {}, 0)

\* activity_stream from the request to the "connected" message, or to the
\* end of the handler when the broker cannot be reached.
Connect(lat, lng, radius) ==
    LET websocket == Cardinality(DOMAIN sockets) + 1
        channels == ConnectChannels(lat, lng, radius)
    IN  /\ websocket <= MaxSockets
        /\ IF broker_up
           THEN /\ sockets' = With(sockets, websocket,
                                   [status |-> "open", lat |-> lat, lng |-> lng,
                                    radius |-> radius])
                /\ active_connections' = With(active_connections, websocket, channels)
                /\ pubsub' = With(pubsub, websocket, channels)
                /\ response' = Resp("connect", websocket, NoMatch, 0, "connected",
                                    NoAcceptances, {}, Cardinality(channels))
           ELSE /\ sockets' = With(sockets, websocket,
                                   [status |-> "closed", lat |-> lat, lng |-> lng,
                                    radius |-> radius])
                /\ active_connections' =
                       disconnect(With(active_connections, websocket, channels), websocket)
                /\ pubsub' = pubsub
                /\ response' = Resp("connect", websocket, NoMatch, 0, "closed",
                                    NoAcceptances, {}, 0)
        /\ UNCHANGED <<listings, saves, matches, now, json_tracked, feedvars, requests>>

\* listen_client on {"type": "update_location", "lat": new_lat, "lng":
\* new_lng} (lines 155-180): the client has moved to the new point.
UpdateLocation(websocket, new_lat, new_lng) ==
    LET k == RingSize(sockets[websocket].radius)
        channels == DiskChannels(new_lat, new_lng, k)
    IN  /\ websocket \in DOMAIN sockets
        /\ sockets[websocket].status = "open"
        /\ IF new_lat # 0 /\ new_lng # 0
           THEN IF broker_up
                THEN /\ active_connections' =
                            [active_connections EXCEPT ![websocket] = channels]
                     /\ pubsub' = [pubsub EXCEPT ![websocket] = channels]
                     /\ sockets' = [sockets EXCEPT ![websocket].lat = new_lat,
                                                   ![websocket].lng = new_lng]
                     /\ response' = Resp("update_location", websocket, NoMatch, 0,
                                         "location_updated", NoAcceptances, {},
                                         Cardinality(channels))
                ELSE Cleanup(websocket, "update_location")
           ELSE /\ sockets' = [sockets EXCEPT ![websocket].lat = new_lat,
                                              ![websocket].lng = new_lng]
                /\ response' = Resp("update_location", websocket, NoMatch, 0, "",
                                    NoAcceptances, {}, 0)
                /\ UNCHANGED <<active_connections, pubsub>>
        /\ UNCHANGED <<listings, saves, matches, now, json_tracked, feedvars, requests>>

\* The client closes the websocket: receive_json raises WebSocketDisconnect.
ClientDisconnect(websocket) ==
    /\ websocket \in DOMAIN sockets
    /\ sockets[websocket].status = "open"
    /\ Cleanup(websocket, "disconnect")
    /\ UNCHANGED <<listings, saves, matches, now, json_tracked, feedvars, requests>>

\* listen_redis or listen_client ends with an exception (a failed send, a
\* lost broker connection, a malformed message).
ListenerError(websocket) ==
    /\ websocket \in DOMAIN sockets
    /\ sockets[websocket].status = "open"
    /\ Cleanup(websocket, "listener_error")
    /\ UNCHANGED <<listings, saves, matches, now, json_tracked, feedvars, requests>>

\* The broker stops, and starts again.
BrokerDown ==
    /\ broker_up
    /\ broker_up' = FALSE
    /\ pubsub' = [w \in DOMAIN pubsub |-> {}]
    /\ response' = NoResponse
    /\ UNCHANGED <<listings, saves, saved_at, matches, heat, events, event_ids,
                   published, active_connections, sockets, requests, now,
                   json_tracked>>

BrokerUp ==
    /\ ~broker_up
    /\ broker_up' = TRUE
    /\ response' = NoResponse
    /\ UNCHANGED <<listings, saves, saved_at, matches, heat, events, event_ids,
                   published, streamvars, requests, now, json_tracked>>

\* The points <<lat, lng>> and the radii the clients send.
ConnectPoints == {<<0, 1>>, <<5, 1>>}

MovePoints == {<<0, 1>>, <<9, 1>>}

StreamRadii == {10, 13}

InitStream ==
    /\ listings = [l \in {1} |-> World[l]]
    /\ saves = {}
    /\ matches = <<>>
    /\ now = 0
    /\ json_tracked = FALSE
    /\ response = NoResponse
    /\ Quiet

NextStream ==
    \/ \E p \in ConnectPoints, radius \in StreamRadii : Connect(p[1], p[2], radius)
    \/ \E w \in DOMAIN sockets, p \in MovePoints : UpdateLocation(w, p[1], p[2])
    \/ \E w \in DOMAIN sockets : ClientDisconnect(w)
    \/ \E w \in DOMAIN sockets : ListenerError(w)
    \/ BrokerDown
    \/ BrokerUp

SpecStream == InitStream /\ [][NextStream]_vars

----------------------------------------------------------------------------
\* The handlers that publish (create, price drop, mark sold), with a broker
\* that stops and starts.

DropPrices == {50, 100}

InitPublish ==
    /\ listings = [l \in {1, 3} |-> World[l]]
    /\ saves = {}
    /\ matches = <<>>
    /\ now = 0
    /\ json_tracked = FALSE
    /\ response = NoResponse
    /\ Quiet

NextPublish ==
    \/ \E user \in {1, 2} : create_listing(user, 0, 0, 70, "SALE")
    \/ \E user \in {1, 2}, l \in {1, 9}, new_price \in DropPrices :
           drop_listing_price(user, l, new_price)
    \/ \E user \in {1, 2}, l \in {1, 3, 9} : mark_listing_sold(user, l)
    \/ BrokerDown
    \/ BrokerUp

SpecPublish == InitPublish /\ [][NextPublish]_vars

----------------------------------------------------------------------------
\* Subscribers and publishers together: clients connect and leave while
\* listings are created around them and sold.

ListingPoints == {<<0, 1>>, <<1, 1>>}

InitDelivery ==
    /\ listings = [l \in {1} |-> World[l]]
    /\ saves = {}
    /\ matches = <<>>
    /\ now = 0
    /\ json_tracked = FALSE
    /\ response = NoResponse
    /\ Quiet

NextDelivery ==
    \/ \E p \in ConnectPoints, radius \in StreamRadii : Connect(p[1], p[2], radius)
    \/ \E w \in DOMAIN sockets : ClientDisconnect(w)
    \/ \E user \in {1}, p \in ListingPoints : create_listing(user, p[1], p[2], 70, "SALE")
    \/ \E user \in {1, 2}, l \in {2} : mark_listing_sold(user, l)

SpecDelivery == InitDelivery /\ [][NextDelivery]_vars

----------------------------------------------------------------------------
\* The activity ribbon (services/routers/feed_v2.py)

\* timedelta(hours=24) of get_activity_ribbon, in days
RibbonWindowDays == 1

NotExpiredAtQueryTime(e) == e.expires_at = NoExpiry \/ e.expires_at >= now

\* or_(FeedEvent.expires_at.is_(None), FeedEvent.expires_at > utcnow())
NotExpired(e) == e.expires_at = NoExpiry \/ e.expires_at > now

\* The rows the query of get_activity_ribbon selects before its limit.
RibbonRows(lat, lng, radius, event_types) ==
    LET search_hexes == k_ring(geo_to_h3(lat, lng, 7), RingSize(radius))
    IN  {i \in DOMAIN events :
            /\ events[i].h3_index_r7 \in search_hexes
            /\ events[i].created_at >= now - RibbonWindowDays
            /\ event_types # {} => events[i].event_type \in event_types
            /\ NotExpired(events[i])}

\* The handler of GET /v2/activity-ribbon: the newest limit rows (the store
\* breaks ties of created_at as it likes); it writes nothing.
get_activity_ribbon(lat, lng, radius, event_types, limit) ==
    LET rows == RibbonRows(lat, lng, radius, event_types)
    IN  /\ \E page \in SUBSET rows :
               /\ Cardinality(page) = Min(limit, Cardinality(rows))
               /\ \A i \in page, j \in rows \ page :
                      events[i].created_at >= events[j].created_at
               /\ response' =
                      [op |-> "activity-ribbon", user |-> NoUser, target |-> NoMatch,
                       code |-> 200, status |-> "", acceptances |-> NoAcceptances,
                       returned |-> {events[i].id : i \in page},
                       count |-> Cardinality(page),
                       has_more |-> (Cardinality(page) = limit),
                       query |-> [lat |-> lat, lng |-> lng, radius |-> radius,
                                  event_types |-> event_types, limit |-> limit]]
        /\ UNCHANGED <<listings, saves, matches, now, json_tracked, feedvars,
                       streamvars, requests>>

\* A time-limited event (FLASH_SALE), as a producer of the feed_events table
\* stores it: the column expires_at is set.
TimedEvent(id, lat, lng, expires_at) ==
    set_h3_indexes([id |-> id, event_type |-> "FLASH_SALE",
                    entity_type |-> "shop", entity_id |-> 0, user_id |-> NoUser,
                    h3_index |-> NoCell, h3_index_r8 |-> NoCell,
                    h3_index_r7 |-> NoCell,
                    created_at |-> 0, expires_at |-> expires_at],
                   lat, lng)

EventPoints == {<<0, 0>>, <<4, 0>>}

EventExpiries == {NoExpiry, 1, 2}

RibbonRadii == {10, 13}

InitRibbon ==
    /\ listings = [l \in {1} |-> World[l]]
    /\ saves = {}
    /\ saved_at = <<>>
    /\ matches = <<>>
    /\ heat = <<>>
    /\ \E p \in EventPoints, x \in EventExpiries :
           events = <<TimedEvent(1, p[1], p[2], x)>>
    /\ event_ids = 1
    /\ published = <<>>
    /\ broker_up = TRUE
    /\ active_connections = <<>>
    /\ pubsub = <<>>
    /\ sockets = <<>>
    /\ requests = <<>>
    /\ now = 0
    /\ json_tracked = FALSE
    /\ response = NoResponse

NextRibbon ==
    \/ \E radius \in RibbonRadii, event_types \in {{}, {"PRICE_DROP"}},
          limit \in {1, DefaultLimit} :
           get_activity_ribbon(0, 0, radius, event_types, limit)
    \/ \E user \in {1, 2}, new_price \in DropPrices : drop_listing_price(user, 1, new_price)
    \/ \E user \in {1} : mark_listing_sold(user, 1)
    \/ compute_listing_rankings({})
    \/ update_heat_indexes({})
    \/ find_trade_matches(NoUser)
    \/ cleanup_expired_feed_data
    \/ TimePasses

SpecRibbon == InitRibbon /\ [][NextRibbon]_vars

----------------------------------------------------------------------------
\* Radius expansion (services/core/h3_geo.py) and the hyperlocal feed
\* (services/routers/feed_v2.py).  A radius is in hundredths of a mile here.

\* RADIUS_TO_KRING
RADIUS_TO_KRING ==
    [r \in {25, 50, 100, 300, 500} |->
        CASE r = 25 -> 0 [] r = 50 -> 1 [] r = 100 -> 3 [] r = 300 -> 8 [] OTHER -> 13]

\* get_radius_hexes with its default resolution:
\* k = RADIUS_TO_KRING.get(radius_miles, int(radius_miles * 2.5))
get_radius_hexes(lat, lng, radius_miles) ==
    LET center_hex == geo_to_h3(lat, lng, 9)
        k == IF radius_miles \in DOMAIN RADIUS_TO_KRING
             THEN RADIUS_TO_KRING[radius_miles]
             ELSE (radius_miles * 25) \div 1000
    IN  k_ring(center_hex, k)

\* The column get_hyperlocal_feed queries for a radius: its resolution.
HexColumn(radius) == IF radius <= 50 THEN 9 ELSE IF radius <= 150 THEN 8 ELSE 7

\* search_hexes of get_hyperlocal_feed
SearchHexes(lat, lng, radius) ==
    IF HexColumn(radius) = 9
    THEN get_radius_hexes(lat, lng, radius)
    ELSE {h3_to_parent(h, HexColumn(radius)) : h \in get_radius_hexes(lat, lng, radius)}

CellAt(l, res) ==
    IF res = 9 THEN l.h3_index ELSE IF res = 8 THEN l.h3_index_r8 ELSE l.h3_index_r7

\* desc(Listing.rank_score), desc(Listing.created_at): a is not after b.
RanksNotAfter(a, b) ==
    \/ RatLess(b.rank_score, a.rank_score)
    \/ RatEq(a.rank_score, b.rank_score) /\ a.created_at >= b.created_at

\* The handler of GET /v2/feed/hyperlocal without the optional filters,
\* sorted by rank, from offset 0; it writes nothing.
get_hyperlocal_feed(user, lat, lng, radius, limit) ==
    LET center_h3 == geo_to_h3(lat, lng, 9)
        search_hexes == SearchHexes(lat, lng, radius)
        rows == {l \in ListingIds :
                    /\ listings[l].status = "ACTIVE"
                    /\ CellAt(listings[l], HexColumn(radius)) \in search_hexes}
        heat_level == IF center_h3 \in DOMAIN heat THEN heat[center_h3].heat_level
                      ELSE "cold"
    IN  /\ \E page \in SUBSET rows :
               /\ Cardinality(page) = Min(limit, Cardinality(rows))
               /\ \A a \in page, b \in rows \ page :
                      RanksNotAfter(listings[a], listings[b])
               /\ response' =
                      [op |-> "hyperlocal", user |-> user, target |-> NoMatch,
                       code |-> 200, status |-> heat_level,
                       acceptances |-> NoAcceptances,
                       returned |-> page, count |-> Cardinality(rows),
                       query |-> [lat |-> lat, lng |-> lng, radius |-> radius,
                                  limit |-> limit]]
        /\ UNCHANGED <<listings, saves, matches, now, json_tracked, feedvars,
                       streamvars, requests>>

FeedPoints == {<<0, 0>>, <<12, 0>>, <<0, 1>>}

FeedRadii == {25, 40, 50, 100, 120, 300, 500}

\* limit: int = Query(default=50, ge=1, le=100) of get_hyperlocal_feed
DefaultFeedLimit == 50

InitHyperlocal ==
    /\ listings = World
    /\ saves = {}
    /\ matches = <<>>
    /\ now = 0
    /\ json_tracked = FALSE
    /\ response = NoResponse
    /\ Quiet

NextHyperlocal ==
    \/ \E user \in {1}, p \in FeedPoints, radius \in FeedRadii,
          limit \in {1, DefaultFeedLimit} :
           get_hyperlocal_feed(user, p[1], p[2], radius, limit)
    \/ \E user \in {1, 2}, l \in {1, 4} : mark_listing_sold(user, l)

SpecHyperlocal == InitHyperlocal /\ [][NextHyperlocal]_vars

----------------------------------------------------------------------------
\* UserWishlist.matches_listing (services/models/trade_match.py).  A text
\* column that is None or empty is "", a size is a text, a price a number.

NoText == ""

\* str.upper on the texts the model draws
Upper(s) == CASE s = "dh1" -> "DH1" [] s = "Nike" -> "NIKE" [] OTHER -> s

\* float(size) in tenths; a text that is no number raises ValueError
IsNumber(s) == s \in {"9", "9.5", "10"}

ToFloat(s) == CASE s = "9" -> 90 [] s = "9.5" -> 95 [] OTHER -> 100

condition_order == <<"DS", "VNDS", "EXCELLENT", "GOOD", "FAIR", "BEAT">>

\* condition_order.index(c), for a c of the list
ConditionIndex(c) == CHOOSE i \in DOMAIN condition_order : condition_order[i] = c

matches_listing(w, l) ==
    /\ w.sku # NoText /\ l.sku # NoText => Upper(w.sku) = Upper(l.sku)
    /\ w.brand # NoText /\ l.brand # NoText => Upper(w.brand) = Upper(l.brand)
    /\ w.size # NoText /\ l.size # NoText =>
           IF ~w.size_flexible THEN w.size = l.size
           ELSE IF IsNumber(w.size) /\ IsNumber(l.size)
                THEN Abs(ToFloat(w.size) - ToFloat(l.size)) <= 5
                ELSE w.size = l.size
    /\ Truthy(w.max_price) /\ Truthy(l.price) => l.price <= w.max_price
    /\ w.min_condition # NoText /\ l.condition # NoText =>
           \/ w.min_condition \notin Range(condition_order)
           \/ l.condition \notin Range(condition_order)
           \/ ConditionIndex(l.condition) <= ConditionIndex(w.min_condition)

\* The wishlist items and the listings the function is applied to: a pair
\* that matches field by field, varied in at most two of its five criteria.
WishlistItems ==
    [sku : {NoText, "dh1"}, brand : {NoText, "Nike"}, size : {NoText, "9"},
     size_flexible : BOOLEAN, max_price : {NoPrice, 100},
     min_condition : {NoText, "VNDS", "GOOD"}]

WishedListings ==
    [sku : {NoText, "DH1", "XX2"}, brand : {NoText, "NIKE", "PUMA"},
     size : {NoText, "9", "9.5", "10", "M"}, price : {NoPrice, 100, 120},
     condition : {NoText, "DS", "BEAT", "NEW"}]

Varied(w, l) ==
    {c \in 1..5 :
        CASE c = 1 -> ~(w.sku = "dh1" /\ l.sku = "DH1")
          [] c = 2 -> ~(w.brand = "Nike" /\ l.brand = "NIKE")
          [] c = 3 -> ~(w.size = "9" /\ ~w.size_flexible /\ l.size = "9")
          [] c = 4 -> ~(w.max_price = 100 /\ l.price = 100)
          [] OTHER -> ~(w.min_condition = "GOOD" /\ l.condition = "DS")}

WishlistCases ==
    {p \in WishlistItems \X WishedListings : Cardinality(Varied(p[1], p[2])) <= 2}

MatchesListing(w, l) ==
    /\ response' = [op |-> "matches_listing", user |-> NoUser, target |-> NoMatch,
                    code |-> 200, status |-> "", acceptances |-> NoAcceptances,
                    returned |-> {}, count |-> 0,
                    wishlist |-> w, listing |-> l, result |-> matches_listing(w, l)]
    /\ UNCHANGED <<listings, saves, matches, now, json_tracked, feedvars,
                   streamvars, requests>>

InitWishlist ==
    /\ listings = <<>>
    /\ saves = {}
    /\ matches = <<>>
    /\ now = 0
    /\ json_tracked = FALSE
    /\ response = NoResponse
    /\ Quiet

NextWishlist == \E p \in WishlistCases : MatchesListing(p[1], p[2])

SpecWishlist == InitWishlist /\ [][NextWishlist]_vars

----------------------------------------------------------------------------
\* Price drops asked by owners and by others, on a priced listing, on a
\* trade-only listing without price, on a listing priced 0 and on a listing
\* that does not exist.

NewPrices == {0, 50, 100, 120}

InitPriceDrop ==
    /\ listings = [l \in {1, 2, 5} |-> World[l]]
    /\ saves = {}
    /\ matches = <<>>
    /\ now = 0
    /\ json_tracked = FALSE
    /\ response = NoResponse
    /\ Quiet

NextPriceDrop ==
    \/ \E user \in Users, l \in {1, 2, 5, 9}, new_price \in NewPrices :
           drop_listing_price(user, l, new_price)
    \/ BrokerDown
    \/ BrokerUp

SpecPriceDrop == InitPriceDrop /\ [][NextPriceDrop]_vars

----------------------------------------------------------------------------
\* The periodic heat pass over the days: listings are saved, one expires,
\* cells are looked at, and the pass runs without a scope.

InitDecay ==
    /\ listings = [l \in {1, 2} |-> World[l]]
    /\ saves = {}
    /\ matches = <<>>
    /\ now = 0
    /\ json_tracked = FALSE
    /\ response = NoResponse
    /\ Quiet

NextDecay ==
    \/ update_heat_indexes({})
    \/ \E lat \in {0, 1} : get_neighborhood_heat(lat, 0)
    \/ \E user \in {2, 3}, l \in {1, 2} : save_listing(user, l)
    \/ cleanup_expired_feed_data
    \/ TimePasses

SpecDecay == InitDecay /\ [][NextDecay]_vars

----------------------------------------------------------------------------
\* The periodic heat pass with its failures and retries, while a user saves
\* listings and the days pass.

Cells == {<<0, 0>>, <<0, 3>>}

InitHeatPass ==
    /\ listings = [l \in {1, 2} |-> World[l]]
    /\ saves = {}
    /\ matches = <<>>
    /\ now = 0
    /\ json_tracked = FALSE
    /\ response = NoResponse
    /\ Quiet

NextHeatPass ==
    \/ update_heat_indexes({})
    \/ \E done \in SUBSET Cells, half \in SUBSET Cells :
           update_heat_indexes_fails({}, done, half)
    \/ \E user \in {2}, l \in {1, 2} : save_listing(user, l)
    \/ \E lat \in {0, 3} : get_neighborhood_heat(lat, 0)
    \/ TimePasses

SpecHeatPass == InitHeatPass /\ [][NextHeatPass]_vars

----------------------------------------------------------------------------
\* The batch jobs as Celery tasks (worker/feed_tasks.py):
\* @shared_task(bind=True, max_retries=3), the whole body in one try, and
\* `except Exception as e: ... self.retry(exc=e, countdown=60)`.  A task
\* request is a record of `requests`: the job, request.retries, how many
\* times the body has run, and where the request stands.

TaskNames == <<"compute_listing_rankings", "update_heat_indexes", "find_trade_matches">>

max_retries == 3

TaskRequest(name) ==
    [op |-> name, retries |-> 0, attempts |-> 0, phase |-> "queued"]

retry_forever(req) ==
    [req EXCEPT !.retries = @ + 1, !.attempts = @ + 1]

\* self.retry(exc=e, countdown=60) in the except clause: the request is sent
\* again with retries + 1 (Retry is raised, the body ends), unless that
\* exceeds max_retries: then the exception e is raised and the task fails.
retry(req) ==
    IF req.retries + 1 > max_retries
    THEN [req EXCEPT !.attempts = @ + 1, !.phase = "failure"]
    ELSE [req EXCEPT !.retries = @ + 1, !.attempts = @ + 1]

\* What a run of the body that reaches its db.commit() stores.
TaskCommits(name) ==
    /\ listings' =
           IF name = "compute_listing_rankings"
           THEN [l \in ListingIds |->
                    IF l \in ToRank({})
                    THEN [listings[l] EXCEPT
                             !.rank_score = RankScore(l, ToRank({})),
                             !.demand_score = DemandScore(l)]
                    ELSE listings[l]]
           ELSE listings
    /\ heat' =
           IF name = "update_heat_indexes"
           THEN [c \in DOMAIN heat \cup HexesToUpdate({}) |->
                    IF c \in HexesToUpdate({}) THEN UpdatedHeat(heat, c)
                    ELSE heat[c]]
           ELSE heat
    /\ matches' \in
           IF name = "find_trade_matches"
           THEN PassOutcomes({matches}, Turns(Ascending(UsersToProcess(NoUser))))
           ELSE {matches}

\* A run of the body that returns {"success": True, ...}.
TaskSucceeds(t) ==
    /\ requests[t].phase = "queued"
    /\ TaskCommits(requests[t].op)
    /\ requests' = [requests EXCEPT ![t].attempts = @ + 1, ![t].phase = "success"]
    /\ response' = Resp(requests[t].op, NoUser, NoMatch, 200, "success",
                        NoAcceptances, {}, requests'[t].attempts)
    /\ UNCHANGED <<saves, saved_at, events, event_ids, published, broker_up,
                   now, json_tracked, streamvars>>

\* A run of the body that raises: `with Session() as db:` is left without
\* the commit, so nothing is stored, and the except clause calls self.retry.
TaskFails(t) ==
    /\ requests[t].phase = "queued"
    /\ requests' = [requests EXCEPT ![t] = retry(requests[t])]
    /\ response' = Resp(requests[t].op, NoUser, NoMatch, 500,
                        IF requests'[t].phase = "failure" THEN "failure" ELSE "retry",
                        NoAcceptances, {}, requests'[t].attempts)
    /\ UNCHANGED <<listings, saves, matches, now, json_tracked, feedvars,
                   streamvars>>

TaskRuns(t) == TaskFails(t) \/ TaskSucceeds(t)

\* One request of each job sent by the beat schedule, listings 1 and 3 of
\* users 1 and 2, and user 1 has saved listing 3.
InitRetry ==
    /\ saves = {<<1, 3>>}
    /\ listings = Saved([l \in {1, 3} |-> World[l]], saves)
    /\ matches = <<>>
    /\ now = 0
    /\ json_tracked = FALSE
    /\ response = NoResponse
    /\ saved_at = [s \in saves |-> 0]
    /\ heat = <<>>
    /\ events = <<>>
    /\ event_ids = 0
    /\ published = <<>>
    /\ broker_up = TRUE
    /\ active_connections = <<>>
    /\ pubsub = <<>>
    /\ sockets = <<>>
    /\ requests = [t \in DOMAIN TaskNames |-> TaskRequest(TaskNames[t])]

NextRetry ==
    \/ \E t \in DOMAIN requests : TaskSucceeds(t)
    \/ \E t \in DOMAIN requests : TaskFails(t)
    \/ save_listing(2, 1)

\* The worker runs every request it holds, the retried ones after their
\* countdown.
SpecRetry ==
    /\ InitRetry
    /\ [][NextRetry]_vars
    /\ WF_vars(\E t \in DOMAIN requests : TaskRuns(t))

----------------------------------------------------------------------------
\* get_or_create by several sessions at once.  GET /heat-index and the heat
\* pass each run in a session of their own: get_or_create queries the row of
\* the cell and, when there is none, adds one to the session
\* (heat_index.py, 209-226); the INSERT reaches the table with the
\* db.commit() of the handler (feed_v2.py, 202) or of the pass
\* (feed_tasks.py, 261).  `heat` is keyed by h3_index; a request records
\* the rows it has added and whether its commit has stored them.

HeatNoUnique(h3_index) == FALSE

\* h3_index = Column(String(15), unique=True, ...): the INSERT of a second
\* row for a cell fails.
HeatUniqueViolation(h3_index) == h3_index \in DOMAIN heat

\* The cells for which the get_or_create calls of one session add a row, in
\* the order of the calls: the query of a later call flushes the session
\* first (sessionmaker's autoflush) and so finds the row an earlier call of
\* the same session has added.
RECURSIVE Added(_, _)
Added(hexes, added) ==
    IF hexes = <<>> THEN added
    ELSE IF Head(hexes) \in DOMAIN heat \/ Head(hexes) \in Range(added)
    THEN Added(Tail(hexes), added)
    ELSE Added(Tail(hexes), Append(added, Head(hexes)))

\* A session up to its commit: the handler's one call, or the calls of a
\* pass over the list h3_indexes it was given.
LoadHeat(op, hexes) ==
    /\ Len(requests) < MaxRequests
    /\ requests' = Append(requests,
                          [op |-> op, hexes |-> hexes,
                           added |-> Added(hexes, <<>>),
                           rows |-> [c \in Range(Added(hexes, <<>>)) |-> HeatRow(c)],
                           phase |-> "loaded", code |-> 0])
    /\ UNCHANGED <<listings, saves, matches, now, json_tracked, feedvars,
                   streamvars, response>>

\* db.commit() of the session and what follows it: the INSERTs of the added
\* rows, refused as a whole when one of the cells has a row by now; the
\* handler answers with the stored row, the pass has assigned the fields of
\* every cell of its list (feed_tasks.py, 166-259).
CommitHeat(r) ==
    LET req == requests[r]
        refused == \E i \in DOMAIN req.added : HeatUniqueViolation(req.added[i])
        inserted == [c \in DOMAIN heat \cup Range(req.added) |->
                        IF c \in DOMAIN heat THEN heat[c] ELSE req.rows[c]]
    IN  /\ req.phase = "loaded"
        /\ req.op \in {"heat-index", "update_heat_indexes"}
        /\ requests' = [requests EXCEPT ![r].phase = "done",
                                        ![r].code = IF refused THEN 500 ELSE 200]
        /\ heat' = IF refused THEN heat
                   ELSE IF req.op = "heat-index" THEN inserted
                   ELSE [c \in DOMAIN inserted |->
                            IF c \in Range(req.hexes) THEN UpdatedHeat(inserted, c)
                            ELSE inserted[c]]
        /\ response' = Resp(req.op, NoUser, r, requests'[r].code,
                            IF refused THEN "" ELSE heat'[req.hexes[1]].heat_level,
                            NoAcceptances, {}, Len(req.added))
        /\ UNCHANGED <<listings, saves, saved_at, matches, events, event_ids,
                       published, broker_up, now, json_tracked, streamvars>>

\* The lists of cells a pass is given: one cell, one cell twice, two cells.
HexLists ==
    {<<c>> : c \in Cells} \cup {<<c, c>> : c \in Cells}
        \cup {<<<<0, 0>>, <<0, 3>>>>}

InitHeatRows ==
    /\ listings = [l \in {1, 2} |-> World[l]]
    /\ saves = {}
    /\ matches = <<>>
    /\ now = 0
    /\ json_tracked = FALSE
    /\ response = NoResponse
    /\ Quiet

NextHeatRows ==
    \/ \E c \in Cells : LoadHeat("heat-index", <<c>>)
    \/ \E hexes \in HexLists : LoadHeat("update_heat_indexes", hexes)
    \/ \E r \in DOMAIN requests : CommitHeat(r)
    \/ TimePasses

SpecHeatRows == InitHeatRows /\ [][NextHeatRows]_vars

----------------------------------------------------------------------------
\* listen_client on update_location, one broker call at a time
\* (activity_stream.py, 155-180).  Every `await pubsub.unsubscribe(channel)`
\* and `await pubsub.subscribe(channel)` is a step of its own, so that the
\* other listener, other connections and a disconnect can come in between.
\* A resubscription under way is a record of `requests`: the websocket, the
\* channels the set held when the message came (old) and holds after line
\* 168 (new), and the channels unsubscribed and subscribed so far.

RegisteredCopy(registered, channels) == registered

\* manager.connect stores the set object it is given
\* (self.active_connections[websocket] = channels), and listen_client
\* changes that same object (channels.clear(), channels.update(...)): the
\* registered set is the handler's set after every change.
SameSetObject(registered, channels) == channels

\* The resubscription of websocket w that is under way, if any.
Resubscribing(w) ==
    {r \in DOMAIN requests : /\ requests[r].op = "update_location"
                             /\ requests[r].websocket = w
                             /\ requests[r].phase \in {"unsubscribing", "subscribing"}}

\* listen_client is at `await websocket.receive_json()`.
Waiting(w) ==
    /\ w \in DOMAIN sockets
    /\ sockets[w].status = "open"
    /\ Resubscribing(w) = {}

\* receive_json returns an update_location message (lines 150-159).
ReceiveUpdateLocation(w, new_lat, new_lng) ==
    /\ Waiting(w)
    /\ Len(requests) < MaxRequests
    /\ sockets' = [sockets EXCEPT ![w].lat = new_lat, ![w].lng = new_lng]
    /\ IF new_lat # 0 /\ new_lng # 0
       THEN /\ requests' =
                   Append(requests,
                          [op |-> "update_location", websocket |-> w,
                           old |-> active_connections[w],
                           new |-> DiskChannels(new_lat, new_lng,
                                                RingSize(sockets[w].radius)),
                           unsubscribed |-> {}, subscribed |-> {},
                           phase |-> "unsubscribing"])
            /\ response' = Resp("receive", w, NoMatch, 0, "update_location",
                                NoAcceptances, {}, 0)
       ELSE /\ requests' = requests
            /\ response' = Resp("update_location", w, NoMatch, 0, "",
                                NoAcceptances, {}, 0)
    /\ UNCHANGED <<listings, saves, matches, now, json_tracked, feedvars,
                   active_connections, pubsub>>

\* One `await pubsub.unsubscribe(channel)` of the loop of lines 161-162;
\* after the last one lines 165-168 run without an await in between.
UnsubscribeOld(r, channel) ==
    LET req == requests[r]
        w == req.websocket
        last == req.unsubscribed \cup {channel} = req.old
    IN  /\ req.op = "update_location" /\ req.phase = "unsubscribing"
        /\ sockets[w].status = "open"
        /\ channel \in req.old \ req.unsubscribed
        /\ pubsub' = [pubsub EXCEPT ![w] = @ \ {channel}]
        /\ requests' = [requests EXCEPT
                           ![r].unsubscribed = @ \cup {channel},
                           ![r].phase = IF last THEN "subscribing" ELSE @]
        /\ active_connections' =
               IF last
               THEN [active_connections EXCEPT
                        ![w] = SameSetObject(active_connections[w], req.new)]
               ELSE active_connections
        /\ response' = Resp("unsubscribe", w, NoMatch, 0, "", NoAcceptances, {},
                            Cardinality(pubsub'[w]))
        /\ UNCHANGED <<listings, saves, matches, now, json_tracked, feedvars,
                       sockets>>

\* One `await pubsub.subscribe(channel)` of the loop of lines 171-172;
\* after the last one the handler sends "location_updated" and goes back to
\* receive_json.
SubscribeNew(r, channel) ==
    LET req == requests[r]
        w == req.websocket
        last == req.subscribed \cup {channel} = req.new
    IN  /\ req.op = "update_location" /\ req.phase = "subscribing"
        /\ sockets[w].status = "open"
        /\ channel \in req.new \ req.subscribed
        /\ pubsub' = [pubsub EXCEPT ![w] = @ \cup {channel}]
        /\ requests' = [requests EXCEPT
                           ![r].subscribed = @ \cup {channel},
                           ![r].phase = IF last THEN "done" ELSE @]
        /\ response' = Resp(IF last THEN "update_location" ELSE "subscribe",
                            w, NoMatch, 0,
                            IF last THEN "location_updated" ELSE "",
                            NoAcceptances, {}, Cardinality(pubsub'[w]))
        /\ UNCHANGED <<listings, saves, matches, now, json_tracked, feedvars,
                       sockets, active_connections>>

\* A broker call of the resubscription raises: `except Exception` (line
\* 184) logs and leaves the loop, listen_client ends and the handler goes to
\* its finally block.
ResubscribeFails(r) ==
    LET req == requests[r]
    IN  /\ req.op = "update_location"
        /\ req.phase \in {"unsubscribing", "subscribing"}
        /\ sockets[req.websocket].status = "open"
        /\ requests' = [requests EXCEPT ![r].phase = "failed"]
        /\ Cleanup(req.websocket, "update_location")
        /\ UNCHANGED <<listings, saves, matches, now, json_tracked, feedvars>>

\* The end of a connection while its requests stay as they are.
StreamEnds(w) ==
    /\ w \in DOMAIN sockets
    /\ sockets[w].status = "open"
    /\ \/ Cleanup(w, "disconnect")
       \/ Cleanup(w, "listener_error")
    /\ UNCHANGED <<listings, saves, matches, now, json_tracked, feedvars, requests>>

ResubscribePoints == {<<0, 1>>, <<4, 1>>, <<5, 0>>}

\* Two connections made at <<0, 1>>, of radius 1.3 and 1.0, both confirmed.
InitResubscribe ==
    /\ listings = [l \in {1} |-> World[l]]
    /\ saves = {}
    /\ matches = <<>>
    /\ now = 0
    /\ json_tracked = FALSE
    /\ response = NoResponse
    /\ saved_at = [s \in saves |-> 0]
    /\ heat = <<>>
    /\ events = <<>>
    /\ event_ids = 0
    /\ published = <<>>
    /\ broker_up = TRUE
    /\ requests = <<>>
    /\ sockets = [w \in {1, 2} |->
                     [status |-> "open", lat |-> 0, lng |-> 1,
                      radius |-> IF w = 1 THEN 13 ELSE 10]]
    /\ active_connections = [w \in {1, 2} |->
                                ConnectChannels(0, 1, sockets[w].radius)]
    /\ pubsub = active_connections

NextResubscribe ==
    \/ \E w \in DOMAIN sockets, p \in ResubscribePoints :
           ReceiveUpdateLocation(w, p[1], p[2])
    \/ \E r \in DOMAIN requests, channel \in UNION Range(active_connections) :
           UnsubscribeOld(r, channel)
    \/ \E r \in DOMAIN requests :
           \E channel \in requests[r].new : SubscribeNew(r, channel)
    \/ \E r \in DOMAIN requests : ResubscribeFails(r)
    \/ \E w \in DOMAIN sockets : StreamEnds(w)

SpecResubscribe == InitResubscribe /\ [][NextResubscribe]_vars

----------------------------------------------------------------------------
\* The two listeners of a connection (activity_stream.py, 128-217).  After
\* the "connected" message the handler starts listen_redis and listen_client
\* as tasks and waits in asyncio.wait(..., return_when=FIRST_COMPLETED).
\* sockets[w] then also says whether the client is still there, where each
\* task stands (running, done, cancelled), whether the handler still waits,
\* which published messages listen_redis has taken from the pubsub object
\* and which of them have reached the client.

AllCompleted(redis_task, client_task) ==
    redis_task # "running" /\ client_task # "running"

\* return_when=asyncio.FIRST_COMPLETED (lines 193-196)
FirstCompleted(redis_task, client_task) ==
    redis_task # "running" \/ client_task # "running"

\* The client closes the websocket or its network goes away.
ClientGoes(w) ==
    /\ sockets[w].status = "open" /\ sockets[w].client = "here"
    /\ sockets' = [sockets EXCEPT ![w].client = "gone"]
    /\ response' = NoResponse
    /\ UNCHANGED <<listings, saves, matches, now, json_tracked, feedvars,
                   active_connections, pubsub, requests>>

\* listen_client leaves its loop: receive_json raises WebSocketDisconnect
\* for a client that has gone (line 182), or another exception, for
\* instance on a message that is not JSON (line 184).
ClientListenerEnds(w, reason) ==
    /\ sockets[w].status = "open" /\ sockets[w].client_task = "running"
    /\ reason = "disconnect" <=> sockets[w].client = "gone"
    /\ sockets' = [sockets EXCEPT ![w].client_task = "done"]
    /\ response' = Resp("listen_client", w, NoMatch, 0, reason, NoAcceptances, {}, 0)
    /\ UNCHANGED <<listings, saves, matches, now, json_tracked, feedvars,
                   active_connections, pubsub, requests>>

\* listen_redis takes the next message of one of its channels and forwards
\* it (lines 131-144).  The send reaches a client that is there; for a
\* client that has gone it raises (except Exception: log and break) or the
\* server drops the frame.
ForwardMessage(w, i, raises) ==
    /\ sockets[w].status = "open" /\ sockets[w].redis_task = "running"
    /\ i \in DOMAIN published /\ i \notin sockets[w].received
    /\ published[i].channel \in pubsub[w]
    /\ raises => sockets[w].client = "gone"
    /\ sockets' = [sockets EXCEPT
                      ![w].received = @ \cup {i},
                      ![w].sent = IF sockets[w].client = "here" THEN @ \cup {i} ELSE @,
                      ![w].redis_task = IF raises THEN "done" ELSE @]
    /\ response' = Resp("listen_redis", w, i, 0,
                        IF sockets[w].client = "here" THEN "feed_event" ELSE "",
                        NoAcceptances, {}, 0)
    /\ UNCHANGED <<listings, saves, matches, now, json_tracked, feedvars,
                   active_connections, pubsub, requests>>

\* pubsub.listen() raises or ends (the connection to the broker is lost).
RedisListenerEnds(w) ==
    /\ sockets[w].status = "open" /\ sockets[w].redis_task = "running"
    /\ sockets' = [sockets EXCEPT ![w].redis_task = "done"]
    /\ response' = Resp("listen_redis", w, NoMatch, 0, "error", NoAcceptances, {}, 0)
    /\ UNCHANGED <<listings, saves, matches, now, json_tracked, feedvars,
                   active_connections, pubsub, requests>>

\* asyncio.wait returns and the handler cancels and awaits the pending task
\* (lines 193-204).
WaitReturns(w) ==
    /\ sockets[w].status = "open" /\ sockets[w].handler = "wait"
    /\ FirstCompleted(sockets[w].redis_task, sockets[w].client_task)
    /\ sockets' = [sockets EXCEPT
                      ![w].handler = "cleanup",
                      ![w].redis_task = IF @ = "running" THEN "cancelled" ELSE @,
                      ![w].client_task = IF @ = "running" THEN "cancelled" ELSE @]
    /\ response' = Resp("wait", w, NoMatch, 0, "", NoAcceptances, {}, 0)
    /\ UNCHANGED <<listings, saves, matches, now, json_tracked, feedvars,
                   active_connections, pubsub, requests>>

\* The finally block (lines 210-217).
HandlerCleanup(w) ==
    /\ sockets[w].status = "open" /\ sockets[w].handler = "cleanup"
    /\ Cleanup(w, "cleanup")
    /\ UNCHANGED <<listings, saves, matches, now, json_tracked, feedvars, requests>>

StreamSockets == {1}

\* A confirmed connection at <<0, 1>>, its listeners started.
InitListeners ==
    /\ listings = [l \in {1} |-> World[l]]
    /\ saves = {}
    /\ matches = <<>>
    /\ now = 0
    /\ json_tracked = FALSE
    /\ response = NoResponse
    /\ saved_at = [s \in saves |-> 0]
    /\ heat = <<>>
    /\ events = <<>>
    /\ event_ids = 0
    /\ published = <<>>
    /\ broker_up = TRUE
    /\ requests = <<>>
    /\ sockets = [w \in StreamSockets |->
                     [status |-> "open", lat |-> 0, lng |-> 1, radius |-> 10,
                      client |-> "here", redis_task |-> "running",
                      client_task |-> "running", handler |-> "wait",
                      received |-> {}, sent |-> {}]]
    /\ active_connections = [w \in StreamSockets |-> ConnectChannels(0, 1, 10)]
    /\ pubsub = active_connections

NextListeners ==
    \/ \E w \in StreamSockets : ClientGoes(w)
    \/ \E w \in StreamSockets, reason \in {"disconnect", "error"} :
           ClientListenerEnds(w, reason)
    \/ \E w \in StreamSockets, i \in DOMAIN published, raises \in BOOLEAN :
           ForwardMessage(w, i, raises)
    \/ \E w \in StreamSockets : RedisListenerEnds(w)
    \/ \E w \in StreamSockets : WaitReturns(w)
    \/ \E w \in StreamSockets : HandlerCleanup(w)
    \/ create_listing(1, 0, 1, 70, "SALE")

\* The event loop runs every task that can go on: listen_client gets the
\* disconnect of a client that has gone, the handler returns from
\* asyncio.wait and runs its finally block.
SpecListeners ==
    /\ InitListeners
    /\ [][NextListeners]_vars
    /\ \A w \in StreamSockets :
           /\ WF_vars(ClientListenerEnds(w, "disconnect"))
           /\ WF_vars(WaitReturns(w))
           /\ WF_vars(HandlerCleanup(w))

----------------------------------------------------------------------------
\* Ranking passes of several workers at once (worker/feed_tasks.py, 53-117).
\* A pass reads the active listings and the heat rows in its session,
\* assigns listing.rank_score and listing.demand_score, and its db.commit()
\* sends one UPDATE per listing with the attributes whose value has changed
\* in the session.  requests[w] is the pass of worker w: what it has read
\* and the scores it has computed, until its commit.

RankWorkers == {1, 2}

Idle == [op |-> "rank", phase |-> "idle"]

ScoreAdded(stored, computed) == RatSum(<<stored, computed>>)

\* listing.rank_score = (...) and listing.demand_score = demand_score are
\* assignments: the UPDATE sets the column to the computed value.
ScoreWritten(stored, computed) == computed

\* The value of a score column after the commit of a pass: an attribute
\* assigned the value it was loaded with is not part of the UPDATE.
ScoreAfterCommit(stored, loaded, computed) ==
    IF computed = loaded THEN stored ELSE ScoreWritten(stored, computed)

\* Lines 53-110 of a pass of worker w.
LoadRanking(w, scope) ==
    /\ requests[w].phase = "idle"
    /\ requests' = [requests EXCEPT ![w] =
                       [op |-> "rank", phase |-> "loaded", scope |-> scope,
                        seen |-> [listings |-> listings, heat |-> heat, now |-> now],
                        computed |-> [l \in ToRank(scope) |->
                                         [rank_score |-> RankScore(l, ToRank(scope)),
                                          demand_score |-> DemandScore(l)]]]]
    /\ UNCHANGED <<listings, saves, matches, now, json_tracked, feedvars,
                   streamvars, response>>

\* db.commit() of the pass of worker w and its return value (112-117).
CommitRanking(w) ==
    LET req == requests[w]
        ranked == DOMAIN req.computed
    IN  /\ req.phase = "loaded"
        /\ listings' =
               [l \in ListingIds |->
                   IF l \in ranked
                   THEN [listings[l] EXCEPT
                            !.rank_score =
                                ScoreAfterCommit(@, req.seen.listings[l].rank_score,
                                                 req.computed[l].rank_score),
                            !.demand_score =
                                ScoreAfterCommit(@, req.seen.listings[l].demand_score,
                                                 req.computed[l].demand_score)]
                   ELSE listings[l]]
        /\ requests' = [requests EXCEPT ![w] = Idle]
        /\ response' = [Resp("rank-commit", w, NoMatch, 200, "", NoAcceptances,
                             ranked, Cardinality(ranked))
                        EXCEPT !.status =
                            IF /\ req.scope = {}
                               /\ req.seen = [listings |-> listings, heat |-> heat,
                                              now |-> now]
                            THEN "undisturbed" ELSE "overlapped"]
        /\ UNCHANGED <<saves, matches, now, json_tracked, feedvars, streamvars>>

\* Listings 1 and 3 of one cell, no pass under way.
InitRankPasses ==
    /\ listings = [l \in {1, 3} |-> World[l]]
    /\ saves = {}
    /\ matches = <<>>
    /\ now = 0
    /\ json_tracked = FALSE
    /\ response = NoResponse
    /\ saved_at = [s \in saves |-> 0]
    /\ heat = <<>>
    /\ events = <<>>
    /\ event_ids = 0
    /\ published = <<>>
    /\ broker_up = TRUE
    /\ active_connections = <<>>
    /\ pubsub = <<>>
    /\ sockets = <<>>
    /\ requests = [w \in RankWorkers |-> Idle]

NextRankPasses ==
    \/ \E w \in RankWorkers : LoadRanking(w, {})
    \/ \E w \in RankWorkers : CommitRanking(w)
    \/ update_heat_indexes({})
    \/ save_listing(2, 1)
    \/ mark_listing_sold(2, 3)

SpecRankPasses == InitRankPasses /\ [][NextRankPasses]_vars

----------------------------------------------------------------------------
\* find_trade_matches by several workers at once (worker/feed_tasks.py,
\* 300-395).  A pass queries the stored matches (`existing`, 355-357), adds
\* its new matches to its session and stores them with the one db.commit()
\* at its end (395); the trade_matches table has no unique index over the
\* listings of a match (trade_match.py, 122-138).

\* A pass up to its commit: the matches it has added to its session.
LoadMatchPass(scope) ==
    /\ Len(requests) < MaxRequests
    /\ \E ms \in PassOutcomes({matches}, Turns(Ascending(UsersToProcess(scope)))) :
           requests' = Append(requests,
                              [op |-> "find_trade_matches", scope |-> scope,
                               added |-> SubSeq(ms, Len(matches) + 1, Len(ms)),
                               phase |-> "loaded", code |-> 0])
    /\ UNCHANGED <<listings, saves, matches, now, json_tracked, feedvars,
                   streamvars, response>>

\* db.commit() of the pass and its return value (395-402).
CommitMatchPass(r) ==
    /\ requests[r].op = "find_trade_matches" /\ requests[r].phase = "loaded"
    /\ matches' = matches \o requests[r].added
    /\ requests' = [requests EXCEPT ![r].phase = "done", ![r].code = 200]
    /\ response' = Resp("find_trade_matches", requests[r].scope, NoMatch, 200, "",
                        NoAcceptances, {}, Len(requests[r].added))
    /\ UNCHANGED <<listings, saves, now, json_tracked, feedvars, streamvars>>

NextMatchPasses ==
    \/ \E scope \in Users \cup {NoUser} : LoadMatchPass(scope)
    \/ \E r \in DOMAIN requests : CommitMatchPass(r)
    \/ \E user \in Users, m \in MatchIds : decline_trade_match(user, m)

SpecMatchPasses == Init /\ [][NextMatchPasses]_vars

----------------------------------------------------------------------------
\* Save and unsave requests served one after the other, on listings 1 and 3
\* that nobody has saved, with ranking passes in between.

InitSaveCount ==
    /\ listings = [l \in {1, 3} |-> World[l]]
    /\ saves = {}
    /\ matches = <<>>
    /\ now = 0
    /\ json_tracked = FALSE
    /\ response = NoResponse
    /\ Quiet

NextSaveCount ==
    \/ \E user \in Users, l \in {1, 3, 9} :
           /\ l \in ListingIds => listings[l].demand_score[1] < MaxDemand
           /\ save_listing(user, l)
    \/ \E user \in Users, l \in {1, 3, 9} : unsave_listing(user, l)
    \/ compute_listing_rankings({})

SpecSaveCount == InitSaveCount /\ [][NextSaveCount]_vars

----------------------------------------------------------------------------
\* Publishing of stored events: the three handlers that create a FeedEvent,
\* each of them also with a db.commit() that raises.

\* A handler of POST /v2/listings, POST /v2/listings/{id}/price-drop or
\* POST /v2/listings/{id}/sold whose request passes every check and whose
\* db.commit() raises: the exception leaves the handler before the publish
\* statement, the transaction is rolled back and the answer is 500.
CommitFails(op, user, listing_id, new_price) ==
    /\ \/ op = "create" /\ listing_id = NextListingId
       \/ /\ op \in {"price-drop", "sold"}
          /\ listing_id \in ListingIds
          /\ listings[listing_id].user_id = user
          /\ op = "price-drop" => CanDrop(listings[listing_id], new_price)
    /\ response' = Resp(op, user, listing_id, 500, "", NoAcceptances, {}, 0)
    /\ UNCHANGED <<listings, events, event_ids, published, saves, saved_at, matches,
                   heat, broker_up, now, json_tracked, streamvars, requests>>

NextPublishOnce ==
    \/ \E user \in {1, 2}, point \in ListingPoints :
           create_listing(user, point[1], point[2], 70, "SALE")
    \/ \E user \in {1, 2}, l \in {1, 9}, new_price \in DropPrices :
           drop_listing_price(user, l, new_price)
    \/ \E user \in {1, 2}, l \in {1, 3, 9} : mark_listing_sold(user, l)
    \/ \E op \in {"create", "price-drop", "sold"}, user \in {1, 2}, l \in 1..MaxListings + 2,
          new_price \in DropPrices : CommitFails(op, user, l, new_price)
    \/ BrokerDown
    \/ BrokerUp

SpecPublishOnce == InitPublish /\ [][NextPublishOnce]_vars

----------------------------------------------------------------------------
\* Price drops to amounts of any precision: the owner and others ask for
\* amounts with two decimals and for amounts between them.

RequestedPrices == {0, 50, 95, 98, 99, 120}

NextPriceRounding ==
    \/ \E user \in Users, l \in {1, 2, 5, 9}, new_price \in RequestedPrices :
           drop_listing_price(user, l, new_price)
    \/ BrokerDown
    \/ BrokerUp

SpecPriceRounding == InitPriceDrop /\ [][NextPriceRounding]_vars

----------------------------------------------------------------------------
\* Properties

MatchTerminal == {"COMPLETED", "DECLINED", "EXPIRED"}

ListingTerminal == {"SOLD", "TRADED", "EXPIRED", "DELETED"}

StatusRank(s) ==
    CASE s = "SUGGESTED" -> 1
      [] s = "VIEWED" -> 2
      [] s = "PENDING" -> 3
      [] s = "ACCEPTED" -> 4
      [] s = "COMPLETED" -> 5
      [] OTHER -> 0

Covers(i, pair) == pair \subseteq Range(matches[i].listing_ids)

\* U offers X and has saved Y, and the owner V of Y has saved X, X and Y
\* active trade-intent listings of two users.
ReciprocalPairs ==
    {pair \in SUBSET ListingIds :
        \E x, y \in ListingIds :
            /\ pair = {x, y}
            /\ listings[x].user_id # listings[y].user_id
            /\ TradeEligible(x) /\ TradeEligible(y)
            /\ <<listings[x].user_id, y>> \in saves
            /\ <<listings[y].user_id, x>> \in saves}

\* User 1 (listing 1, priced 100) has saved only listing 3, and user 2
\* (listing 3, priced 120, same cell) has saved only listing 1.
Scenario == {s \in saves : s[1] \in {1, 2}} = {<<1, 3>>, <<2, 1>>}

AfterFullPass == response.op = "find_trade_matches" /\ response.user = NoUser

\* C1: the status of a match never moves backward in the order SUGGESTED <
\* VIEWED < PENDING < ACCEPTED < COMPLETED, and no step changes a status that
\* is COMPLETED, DECLINED or EXPIRED.
C1_StatusNeverBackward ==
    [][\A i \in MatchIds :
           /\ matches[i].status \in MatchTerminal
                  => matches'[i].status = matches[i].status
           /\ StatusRank(matches[i].status) > 0 /\ StatusRank(matches'[i].status) > 0
                  => StatusRank(matches'[i].status) >= StatusRank(matches[i].status)]_vars

\* C3: after an acceptance by a participant the status is ACCEPTED if and
\* only if every user of user_ids has an entry with accepted = true in the
\* acceptances map of the match; otherwise a SUGGESTED or VIEWED match has
\* become PENDING and a PENDING match is still PENDING.
C3_AcceptedIffAllAccepted ==
    [][response'.op = "accept" /\ response'.code = 200 =>
           LET m == response'.target
               all == \A i \in DOMAIN matches[m].user_ids :
                          Accepted(response'.acceptances, matches[m].user_ids[i])
           IN  /\ matches'[m].status = "ACCEPTED" <=> all
               /\ ~all /\ matches[m].status \in {"SUGGESTED", "VIEWED", "PENDING"}
                      => matches'[m].status = "PENDING"]_vars

\* C4: when the trade-match query returns a SUGGESTED match to a participant
\* the match becomes VIEWED, and a returned match in any other status keeps
\* its status.
C4_QueryMarksViewed ==
    [][response'.op = "get_trade_matches" =>
           \A i \in response'.returned :
               matches'[i].status = IF matches[i].status = "SUGGESTED"
                                    THEN "VIEWED"
                                    ELSE matches[i].status]_vars

\* C5: an accept or decline on an unknown match id is answered 404, one by a
\* user who is not in the match's user_ids is answered 403, and a step
\* answered 403 or 404 leaves every match as it was.
C5_RejectedActionChangesNothing ==
    [][response'.op \in {"accept", "decline"} =>
           /\ response'.target \notin MatchIds => response'.code = 404
           /\ response'.target \in MatchIds
                  /\ response'.user \notin Range(matches[response'.target].user_ids)
                  => response'.code = 403
           /\ response'.code \in {403, 404} => matches' = matches]_vars

\* A user who takes no part in a match that one participant has accepted was
\* refused.
C5_Witness ==
    /\ response.op \in {"accept", "decline"}
    /\ response.code = 403
    /\ response.target \in MatchIds
    /\ matches[response.target].status = "PENDING"

\* C6: after a pass over all users every reciprocal pair is covered by
\* exactly one TWO_WAY match that is not COMPLETED, DECLINED or EXPIRED: a
\* pair whose matches are all terminal got a new one, a pair with a
\* non-terminal match got none.
C6_OpenPairGetsMatch ==
    AfterFullPass =>
        \A pair \in ReciprocalPairs :
            Cardinality({i \in MatchIds :
                            /\ Covers(i, pair)
                            /\ matches[i].match_type = "TWO_WAY"
                            /\ matches[i].status \notin MatchTerminal}) = 1

\* C10: a listing whose status is SOLD, TRADED, EXPIRED or DELETED keeps that
\* status in every step.
C10_TerminalListingStays ==
    [][\A l \in ListingIds :
           listings[l].status \in ListingTerminal
               => listings'[l].status = listings[l].status]_vars

\* C2: after a pass over all users no two matches that are not COMPLETED,
\* DECLINED or EXPIRED cover the same unordered pair of listings, and every
\* reciprocal pair has exactly one match.
C2_OneMatchPerReciprocalPair ==
    AfterFullPass =>
        /\ \A i, j \in MatchIds :
               /\ i # j
               /\ matches[i].status \notin MatchTerminal
               /\ matches[j].status \notin MatchTerminal
               => Range(matches[i].listing_ids) # Range(matches[j].listing_ids)
        /\ \A pair \in ReciprocalPairs :
               Cardinality({i \in MatchIds : Range(matches[i].listing_ids) = pair}) = 1

\* C7: a TWO_WAY match has exactly two participants, who are two users; each
\* wants the listing the other offers; each offered listing belongs to the
\* participant who offers it; user_ids and listing_ids list exactly the
\* users and the listings of the participants.
C7_TwoWayWellFormed ==
    \A i \in MatchIds :
        matches[i].match_type = "TWO_WAY" =>
            LET p == matches[i].participants
            IN  /\ Len(p) = 2
                /\ p[1].user_id # p[2].user_id
                /\ p[1].wants_listing_id = p[2].offers_listing_id
                /\ p[2].wants_listing_id = p[1].offers_listing_id
                /\ \A k \in 1..2 :
                       listings[p[k].offers_listing_id].user_id = p[k].user_id
                /\ Len(matches[i].user_ids) = 2
                /\ Range(matches[i].user_ids) = {p[1].user_id, p[2].user_id}
                /\ Len(matches[i].listing_ids) = 2
                /\ Range(matches[i].listing_ids) =
                       {p[k].offers_listing_id : k \in 1..2}
                           \cup {p[k].wants_listing_id : k \in 1..2}

\* A pass has just created two matches, one of them offered by the user who
\* also saved a listing of their own.
C7_Witness ==
    /\ response.op = "find_trade_matches"
    /\ response.count = 2
    /\ \E i \in MatchIds :
           <<matches[i].participants[1].user_id,
             matches[i].participants[1].offers_listing_id>> \in saves

\* C8: every match has locality_score = max(0, 100 - 10 * grid distance of
\* the cells of its two listings), 50 where the distance cannot be computed;
\* value_balance = min(price) / max(price) when both listings have a price;
\* match_score = locality_score / 2 + 50 * value_balance, the first term
\* alone when a price is missing; both scores lie in 0..100; and in the
\* scenario of two users whose only saves are each other's listings 1 and 3
\* (100 and 120, one cell), a pass over all users leaves exactly one match
\* of the two, TWO_WAY, with locality_score 100 and value_balance 100/120.
C8_Scores ==
    /\ \A i \in MatchIds :
           LET m == matches[i]
               x == listings[m.listing_ids[1]]
               y == listings[m.listing_ids[2]]
               priced == x.price # NoPrice /\ y.price # NoPrice
               lo == IF x.price <= y.price THEN x.price ELSE y.price
               hi == IF x.price <= y.price THEN y.price ELSE x.price
           IN  /\ m.locality_score =
                      IF x.h3_index[1] # y.h3_index[1] THEN 50
                      ELSE IF Abs(x.h3_index[2] - y.h3_index[2]) >= 10 THEN 0
                      ELSE 100 - 10 * Abs(x.h3_index[2] - y.h3_index[2])
               /\ priced => m.value_balance[1] * hi = lo * m.value_balance[2]
               /\ ~priced => m.value_balance[1] = 0
               /\ 2 * m.match_score[1] * m.value_balance[2] =
                      m.match_score[2] * (m.locality_score * m.value_balance[2]
                                             + 100 * m.value_balance[1])
               /\ m.locality_score \in 0..100
               /\ m.match_score[2] > 0 /\ m.value_balance[2] > 0
               /\ 0 <= m.match_score[1] /\ m.match_score[1] <= 100 * m.match_score[2]
    /\ AfterFullPass /\ Scenario =>
           /\ Cardinality({i \in MatchIds : Covers(i, {1, 3})}) = 1
           /\ \A i \in MatchIds :
                  Covers(i, {1, 3}) =>
                      /\ matches[i].match_type = "TWO_WAY"
                      /\ matches[i].locality_score = 100
                      /\ matches[i].value_balance[1] * 120 =
                             100 * matches[i].value_balance[2]

\* A pass has just run in the scenario and listings 1 and 3 are matched.
C8_Witness ==
    /\ AfterFullPass
    /\ Scenario
    /\ response.count = 1
    /\ \E i \in MatchIds :
           /\ Covers(i, {1, 3})
           /\ matches[i].locality_score = 100
           /\ RatEq(matches[i].match_score, <<275, 3>>)

\* C9: after a pass over all users, every cycle of three users in which each
\* offers an active trade-intent listing that the next one has saved has
\* exactly one THREE_WAY match, of three participants, over its listings.
C9_ThreeWayForEveryCycle ==
    AfterFullPass =>
        \A x, y, z \in ListingIds :
            /\ Cardinality({listings[x].user_id, listings[y].user_id,
                            listings[z].user_id}) = 3
            /\ TradeEligible(x) /\ TradeEligible(y) /\ TradeEligible(z)
            /\ <<listings[y].user_id, x>> \in saves
            /\ <<listings[z].user_id, y>> \in saves
            /\ <<listings[x].user_id, z>> \in saves
            => Cardinality({i \in MatchIds :
                               /\ matches[i].match_type = "THREE_WAY"
                               /\ Len(matches[i].participants) = 3
                               /\ Range(matches[i].listing_ids) = {x, y, z}}) = 1

\* C11: a step that is not a ranking pass (a view, a save, an unsave, a
\* recorded message, a price drop, a mark-sold) leaves rank_score and
\* demand_score of every listing as they were.
C11_OnlyRankingWritesScores ==
    [][response'.op # "compute_listing_rankings" =>
           \A l \in ListingIds :
               /\ listings'[l].rank_score = listings[l].rank_score
               /\ listings'[l].demand_score = listings[l].demand_score]_vars

\* The listings whose scores the last step, a ranking pass, has written.
Ranked == IF response.op = "compute_listing_rankings" THEN response.returned ELSE {}

\* heat_score of the listing's resolution-9 cell, 0 without a heat record.
CellHeat(l) ==
    IF listings[l].h3_index \in DOMAIN heat
    THEN heat[listings[l].h3_index].heat_score
    ELSE <<0, 1>>

\* Listing a is at least listing b in every factor that raises the score, and
\* at most as old.
Dominates(a, b) ==
    /\ listings[a].save_count >= listings[b].save_count
    /\ listings[a].message_count >= listings[b].message_count
    /\ listings[a].view_count >= listings[b].view_count
    /\ RatLeq(CellHeat(b), CellHeat(a))
    /\ listings[a].authenticity_score >= listings[b].authenticity_score
    /\ listings[b].is_verified => listings[a].is_verified
    /\ RatLeq(get_price_drop_percent(listings[b]), get_price_drop_percent(listings[a]))
    /\ now - listings[a].created_at <= now - listings[b].created_at

BatchMax(counts) ==
    IF \E c \in counts : c >= 1 THEN CHOOSE c \in counts : \A d \in counts : d <= c ELSE 1

\* heat_score / 100 * 20
Demand(l) == <<CellHeat(l)[1] * 20, CellHeat(l)[2] * 100>>

Freshness(l) ==
    LET age_hours == (now - listings[l].created_at) * Hours
    IN  IF age_hours >= FreshHours THEN <<0, 1>>
        ELSE <<10 * (FreshHours - age_hours), FreshHours>>

Discount(l) ==
    IF listings[l].original_price \in {NoPrice, 0} \/ listings[l].price \in {NoPrice, 0}
    THEN <<0, 1>>
    ELSE <<(listings[l].original_price - listings[l].price) * 100,
           listings[l].original_price>>

Bonus(l) ==
    IF RatLeq(Discount(l), <<10, 1>>) THEN <<0, 1>>
    ELSE IF RatLeq(<<25, 1>>, Discount(l)) THEN <<5, 1>>
    ELSE <<Discount(l)[1], Discount(l)[2] * 5>>

Served(op, l) ==
    {r \in DOMAIN requests : /\ requests[r].phase = "done"
                             /\ requests[r].op = op
                             /\ requests[r].target = l
                             /\ requests[r].code = 200}

\* C12: once all requests are answered, view_count is the number of views
\* served to users other than the owner and save_count the number of saves
\* served (to distinct users), whatever their interleaving with each other
\* and with ranking passes.
C12_NoLostCounterUpdate ==
    (\A r \in DOMAIN requests : requests[r].phase = "done") =>
        \A l \in ListingIds :
            /\ listings[l].view_count =
                   Cardinality({r \in Served("view", l) :
                                   requests[r].user # listings[l].user_id})
            /\ listings[l].save_count = Cardinality(Served("save", l))

\* A velocity as a number: None counts as 0.
Velocity(v) == IF v = NoVelocity THEN <<0, 1>> ELSE v

\* 25 save + 30 dm + 20 trade_request + 15 listing + 10 view
WeightedSum(h) ==
    LET s == Velocity(h.save_velocity)
        d == Velocity(h.dm_velocity)
        t == Velocity(h.trade_request_velocity)
        n == Velocity(h.listing_velocity)
        w == Velocity(h.view_velocity)
    IN  RatSum(<<<<25 * s[1], s[2]>>, <<30 * d[1], d[2]>>, <<20 * t[1], t[2]>>,
                 <<15 * n[1], n[2]>>, <<10 * w[1], w[2]>>>>)

\* Row a has at most the velocities of row b.
AtMostVelocities(a, b) ==
    /\ RatLeq(Velocity(a.save_velocity), Velocity(b.save_velocity))
    /\ RatLeq(Velocity(a.dm_velocity), Velocity(b.dm_velocity))
    /\ RatLeq(Velocity(a.trade_request_velocity), Velocity(b.trade_request_velocity))
    /\ RatLeq(Velocity(a.listing_velocity), Velocity(b.listing_velocity))
    /\ RatLeq(Velocity(a.view_velocity), Velocity(b.view_velocity))

\* C15: the heat_score of every row is min(100, 25 save + 30 dm + 20
\* trade_request + 15 listing + 10 view) of its velocities, a missing one
\* counted as 0; it lies in [0, 100]; and of two rows the one with at most
\* the velocities of the other has at most its heat_score.
C15_HeatScoreFormula ==
    \A c \in DOMAIN heat :
        /\ RatEq(heat[c].heat_score,
                 IF RatLeq(<<100, 1>>, WeightedSum(heat[c]))
                 THEN <<100, 1>> ELSE WeightedSum(heat[c]))
        /\ RatLeq(<<0, 1>>, heat[c].heat_score)
        /\ RatLeq(heat[c].heat_score, <<100, 1>>)
        /\ \A d \in DOMAIN heat :
               AtMostVelocities(heat[c], heat[d])
                   => RatLeq(heat[c].heat_score, heat[d].heat_score)

\* One row whose weighted sum, 110, is capped at 100, and one with missing
\* velocities and a smaller score.
C15_Witness ==
    /\ DOMAIN heat = {<<0, 0>>, <<0, 1>>}
    /\ RatEq(WeightedSum(heat[<<0, 0>>]), <<110, 1>>)
    /\ heat[<<0, 0>>].heat_score = <<100, 1>>
    /\ heat[<<0, 1>>].save_velocity = NoVelocity
    /\ heat[<<0, 1>>].heat_score = <<15, 1>>
    /\ AtMostVelocities(heat[<<0, 1>>], heat[<<0, 0>>]) = FALSE

\* The level of a score.
Bucket(score) ==
    CASE RatLess(score, <<30, 1>>) -> "cold"
      [] RatLeq(<<30, 1>>, score) /\ RatLess(score, <<60, 1>>) -> "warm"
      [] RatLeq(<<60, 1>>, score) /\ RatLess(score, <<80, 1>>) -> "hot"
      [] RatLeq(<<80, 1>>, score) -> "fire"

\* C16: in every heat-index row heat_level is cold for a heat_score below
\* 30, warm from 30 to below 60, hot from 60 to below 80 and fire from 80.
C16_HeatLevelIsBucket ==
    \A c \in DOMAIN heat : heat[c].heat_level = Bucket(heat[c].heat_score)

\* A lazily created row next to a row that a pass has left at exactly 80.
C16_Witness ==
    /\ DOMAIN heat = {<<0, 0>>, <<0, 1>>}
    /\ response.op = "heat-index"
    /\ heat[<<0, 0>>].heat_score = <<0, 1>> /\ heat[<<0, 0>>].heat_level = "cold"
    /\ heat[<<0, 1>>].heat_score = <<80, 1>> /\ heat[<<0, 1>>].heat_level = "fire"

\* The channels of a fresh connection at <<lat, lng>> with a radius (tenths
\* of a mile): the resolution-7 cells within floor(radius * 0.8) of the
\* client's cell, and the client's own cells of resolution 8 and 9.
FreshChannels(lat, lng, radius) ==
    LET centre == geo_to_h3(lat, lng, 7)
        k == CHOOSE n \in 0..radius : n * 100 <= radius * 8 /\ radius * 8 < (n + 1) * 100
    IN  {<<"feed", c>> : c \in k_ring(centre, k)}
            \cup {<<"feed", geo_to_h3(lat, lng, 8)>>, <<"feed", geo_to_h3(lat, lng, 9)>>}

\* C17: a connection that has been confirmed is registered with, and
\* subscribed at the broker to, exactly the channels of the resolution-7
\* disk of size floor(radius * 0.8) around its cell and of its own
\* resolution-8 and resolution-9 cells.
C17_ConnectChannelSet ==
    response.op = "connect" /\ response.status = "connected" =>
        LET w == response.user
            expected == FreshChannels(sockets[w].lat, sockets[w].lng, sockets[w].radius)
        IN  /\ active_connections[w] = expected
            /\ pubsub[w] = expected

\* A connection of radius 1.3 (k = 1) has five channels: three cells of
\* the disk and the two own cells.
C17_Witness ==
    /\ response.op = "connect" /\ response.status = "connected"
    /\ sockets[response.user].radius = 13
    /\ Cardinality(pubsub[response.user]) = 5
    /\ <<"feed", <<1, 5>>>> \in active_connections[response.user]
    /\ <<"feed", <<1, 0, 7>>>> \in active_connections[response.user]

\* C18: after an update_location message with a valid latitude and
\* longitude the connection is registered with, and subscribed to, exactly
\* the channels of a fresh connection at the new location with the same
\* radius.
C18_UpdateLocationChannelSet ==
    response.op = "update_location" /\ sockets[response.user].status = "open" =>
        LET w == response.user
            expected == FreshChannels(sockets[w].lat, sockets[w].lng, sockets[w].radius)
        IN  /\ active_connections[w] = expected
            /\ pubsub[w] = expected

\* C19: a websocket whose connection has ended is not in active_connections
\* and its pubsub object, if any is left, holds no subscription.
C19_EndedConnectionHoldsNothing ==
    \A w \in DOMAIN sockets :
        sockets[w].status = "closed" =>
            /\ w \notin DOMAIN active_connections
            /\ w \in DOMAIN pubsub => pubsub[w] = {}

\* Of two connections, the first was subscribed and has ended while the
\* broker was down (its pubsub object could not be closed) and the second
\* has ended at connect, the broker being down.
C19_Witness ==
    /\ DOMAIN sockets = {1, 2}
    /\ sockets[1].status = "closed" /\ sockets[2].status = "closed"
    /\ response.op = "connect" /\ response.status = "closed"
    /\ ~broker_up
    /\ 1 \in DOMAIN pubsub
    /\ 2 \notin DOMAIN pubsub

\* The last row of feed_events is a new one, of the given type, for the
\* listing.
EventCommitted(event_type, l) ==
    /\ Len(events') = Len(events) + 1
    /\ events'[Len(events')].event_type = event_type
    /\ events'[Len(events')].entity_id = l
    /\ events'[Len(events')].id \notin {events[i].id : i \in DOMAIN events}

\* C20: while the broker is down (every publish fails), a listing creation,
\* a price drop by the owner to a lower price and a mark-sold by the owner
\* are answered 201, 200 and 200, the listing is stored as changed and the
\* FeedEvent row is stored; no such request is answered with an error of the
\* server, and nothing reaches the broker.
C20_PublishFailureSwallowed ==
    [][~broker_up /\ response'.op \in {"create", "price-drop", "sold"} =>
           LET l == response'.target
           IN  /\ response'.code \in {200, 201, 400, 403, 404}
               /\ published' = published
               /\ response'.op = "create" =>
                      /\ response'.code = 201
                      /\ l \in DOMAIN listings' \ ListingIds
                      /\ listings'[l].user_id = response'.user
                      /\ EventCommitted("NEW_LISTING", l)
               /\ response'.op = "sold" /\ l \in ListingIds
                      /\ listings[l].user_id = response'.user =>
                      /\ response'.code = 200
                      /\ listings'[l].status = "SOLD"
                      /\ EventCommitted("ITEM_SOLD", l)
               /\ \A new_price \in DropPrices :
                      /\ drop_listing_price(response'.user, l, new_price)
                      /\ l \in ListingIds
                      /\ listings[l].user_id = response'.user
                      /\ listings[l].price \notin {NoPrice, 0}
                      /\ new_price < listings[l].price
                      => /\ response'.code = 200
                         /\ listings'[l].price = new_price
                         /\ EventCommitted("PRICE_DROP", l)]_vars

\* With the broker down, listing 1 has been repriced and then sold by its
\* owner: both events are stored, neither was published.
C20_Witness ==
    /\ ~broker_up
    /\ response.op = "sold" /\ response.code = 200
    /\ listings[1].status = "SOLD" /\ listings[1].price = 50
    /\ Len(events) = 2
    /\ events[1].event_type = "PRICE_DROP" /\ events[2].event_type = "ITEM_SOLD"
    /\ published = <<>>

\* The resolution-7 cells within floor(radius * 0.8) of the cell of an open
\* connection's client.
SearchDisk(w) ==
    LET k == CHOOSE n \in 0..sockets[w].radius :
                 n * 100 <= sockets[w].radius * 8 /\ sockets[w].radius * 8 < (n + 1) * 100
    IN  k_ring(geo_to_h3(sockets[w].lat, sockets[w].lng, 7), k)

\* C21: when a handler publishes an event for a listing whose resolution-7
\* cell lies in the disk of an open connection, the channel of the message
\* is one of the channels that connection is subscribed to.
C21_ChannelsCoverRadius ==
    [][Len(published') = Len(published) + 1 =>
           LET message == published'[Len(published')]
               listing == listings'[message.entity_id]
           IN  \A w \in DOMAIN sockets :
                   sockets[w].status = "open" /\ listing.h3_index_r7 \in SearchDisk(w)
                       => message.channel \in pubsub[w]]_vars

----------------------------------------------------------------------------
\* The rows an activity query q would select if it had no filter on
\* expires_at: in the disk of the ring size floor(0.8 * miles) around the
\* resolution-7 cell of the query point, created in the last 24 hours, of one
\* of the asked types.
Candidates(q) ==
    LET k == CHOOSE n \in 0..q.radius :
                 n * 100 <= q.radius * 8 /\ q.radius * 8 < (n + 1) * 100
        centre == q.lat \div Power(Aperture, 2)
    IN  {i \in DOMAIN events :
            /\ events[i].h3_index_r7[1] = q.lng
            /\ Abs(events[i].h3_index_r7[2] - centre) <= k
            /\ now - events[i].created_at <= RibbonWindowDays
            /\ q.event_types = {} \/ events[i].event_type \in q.event_types}

Excluded(e) == e.expires_at # NoExpiry /\ e.expires_at <= now

\* C22: the non-expired filter of the activity query never excludes an event
\* without expires_at, and excludes an event with expires_at exactly when
\* expires_at <= the query time: the answer is the newest limit rows among
\* the candidates that are not excluded in this sense.
C22_NonExpiredFilter ==
    response.op = "activity-ribbon" =>
        LET q == response.query
            kept == {i \in Candidates(q) : ~Excluded(events[i])}
        IN  /\ response.returned \subseteq {events[i].id : i \in kept}
            /\ response.count = Min(q.limit, Cardinality(kept))
            /\ Cardinality(response.returned) = response.count
            /\ \A i \in kept :
                   events[i].expires_at = NoExpiry /\ response.count < q.limit
                       => events[i].id \in response.returned

\* An answer that leaves out a candidate whose expires_at is the query time
\* and holds one without expires_at and one whose expires_at is still ahead.
C22_Witness ==
    /\ response.op = "activity-ribbon"
    /\ \E i \in Candidates(response.query) :
           events[i].expires_at = now /\ events[i].id \notin response.returned
    /\ \E i \in Candidates(response.query) :
           events[i].expires_at = NoExpiry /\ events[i].id \in response.returned

C22_WitnessAhead ==
    /\ response.op = "activity-ribbon"
    /\ \E i \in Candidates(response.query) :
           events[i].expires_at > now /\ events[i].id \in response.returned

----------------------------------------------------------------------------
\* A stored event is past its retention (older than seven days) or past its
\* expires_at.
PastRetention(e) == now' - e.created_at > EventRetentionDays

PastExpiry(e) == e.expires_at # NoExpiry /\ e.expires_at < now'

\* In a step every stored event stays as it is, field by field, or the step
\* is a cleanup and the event is past its retention or its expires_at.
EventsWrittenOnce ==
    \A i \in DOMAIN events :
        \/ \E j \in DOMAIN events' : events'[j] = events[i]
        \/ /\ response'.op = "cleanup"
           /\ PastRetention(events[i]) \/ PastExpiry(events[i])
           /\ \A j \in DOMAIN events' : events'[j].id # events[i].id

\* A cleanup leaves no event that is past its retention or its expires_at.
CleanupRemovesExpired ==
    response'.op = "cleanup" =>
        \A j \in DOMAIN events' :
            ~PastRetention(events'[j]) /\ ~PastExpiry(events'[j])

----------------------------------------------------------------------------
\* The active listings whose cell of resolution res lies in the disk of size
\* k, taken at resolution res, around the cell of the query point.
InDisk(q, res, k) ==
    {l \in ListingIds :
        /\ listings[l].status = "ACTIVE"
        /\ CellAt(listings[l], res)[1] = q.lng
        /\ Abs(CellAt(listings[l], res)[2] - q.lat \div Power(Aperture, 9 - res)) <= k}

\* The active listings whose cell of resolution res holds a resolution-9 cell
\* within k steps of the resolution-9 cell of the query point.
AroundDisk(q, res, k) ==
    {l \in ListingIds :
        /\ listings[l].status = "ACTIVE"
        /\ CellAt(listings[l], res)[1] = q.lng
        /\ \E c \in (q.lat - k)..(q.lat + k) :
               c \div Power(Aperture, 9 - res) = CellAt(listings[l], res)[2]}

Answers(rows) ==
    /\ response.count = Cardinality(rows)
    /\ response.returned \subseteq rows
    /\ Cardinality(response.returned) = Min(response.query.limit, Cardinality(rows))

\* C25: the feed's radius expansion searches, for radius 0.25 miles, the
\* centre cell alone at resolution 9 (k = 0); for radius 3.0 miles, the disk
\* of k = 8 at resolution 7; and for a radius outside the lookup table, the
\* cells around the disk of k = floor(2.5 * radius).
C25_RadiusExpansion ==
    response.op = "hyperlocal" =>
        LET q == response.query
            k == CHOOSE n \in 0..q.radius :
                     n * 1000 <= q.radius * 25 /\ q.radius * 25 < (n + 1) * 1000
        IN  /\ q.radius = 25 => Answers(InDisk(q, 9, 0))
            /\ q.radius = 300 => Answers(InDisk(q, 7, 8))
            /\ q.radius \notin {25, 50, 100, 300, 500} =>
                   Answers(AroundDisk(q, HexColumn(q.radius), k))

\* What holds instead for radius 3.0: the resolution-7 cells around the disk
\* of k = 8 at resolution 9.
RadiusExpansionAtResolution9 ==
    response.op = "hyperlocal" =>
        LET q == response.query
            k == CHOOSE n \in 0..q.radius :
                     n * 1000 <= q.radius * 25 /\ q.radius * 25 < (n + 1) * 1000
        IN  /\ q.radius = 25 => Answers(InDisk(q, 9, 0))
            /\ q.radius = 300 => Answers(AroundDisk(q, 7, 8))
            /\ q.radius \notin {25, 50, 100, 300, 500} =>
                   Answers(AroundDisk(q, HexColumn(q.radius), k))

----------------------------------------------------------------------------
\* The order of conditions, best first.
Grade(c) ==
    CASE c = "DS" -> 1 [] c = "VNDS" -> 2 [] c = "EXCELLENT" -> 3
      [] c = "GOOD" -> 4 [] c = "FAIR" -> 5 [] c = "BEAT" -> 6 [] OTHER -> 7

SameIgnoringCase(a, b) == Upper(a) = Upper(b)

SizeFits(w, l) ==
    \/ w.size = l.size
    \/ /\ w.size_flexible
       /\ IsNumber(w.size) /\ IsNumber(l.size)
       /\ ToFloat(w.size) - ToFloat(l.size) \in -5..5

\* Every wishlist field that is set is satisfied by the listing; a field the
\* listing lacks satisfies nothing.
EverySetFieldSatisfied(w, l) ==
    /\ w.sku # NoText => l.sku # NoText /\ SameIgnoringCase(w.sku, l.sku)
    /\ w.brand # NoText => l.brand # NoText /\ SameIgnoringCase(w.brand, l.brand)
    /\ w.size # NoText => l.size # NoText /\ SizeFits(w, l)
    /\ w.max_price # NoPrice => l.price # NoPrice /\ l.price <= w.max_price
    /\ w.min_condition # NoText =>
           l.condition # NoText /\ Grade(l.condition) <= Grade(w.min_condition)

\* C26: matches_listing is true exactly when every set wishlist field is
\* satisfied (SKU and brand equal ignoring case, size equal or within 0.5
\* when flexible, price <= max_price, condition at least min_condition); an
\* absent wishlist field imposes nothing, and a field set on the wishlist but
\* missing on the listing is not a match.
C26_MatchesListing ==
    response.op = "matches_listing" =>
        (response.result <=> EverySetFieldSatisfied(response.wishlist, response.listing))

\* What holds instead: a criterion counts only when both sides have the
\* field, and a listing condition outside the order passes.
MatchesWhereBothSet ==
    response.op = "matches_listing" =>
        LET w == response.wishlist
            l == response.listing
        IN  response.result <=>
                /\ w.sku # NoText /\ l.sku # NoText => SameIgnoringCase(w.sku, l.sku)
                /\ w.brand # NoText /\ l.brand # NoText => SameIgnoringCase(w.brand, l.brand)
                /\ w.size # NoText /\ l.size # NoText => SizeFits(w, l)
                /\ w.max_price # NoPrice /\ l.price # NoPrice => l.price <= w.max_price
                /\ w.min_condition # NoText /\ l.condition # NoText /\ Grade(l.condition) < 7
                       => Grade(l.condition) <= Grade(w.min_condition)

----------------------------------------------------------------------------
\* The step in which request r, a save, is answered.
SaveAnswered(r) ==
    /\ requests[r].op = "save"
    /\ requests[r].phase = "loaded"
    /\ requests'[r].phase = "done"

\* C27: a save request for a listing its user has already saved is rejected
\* with 400 'Already saved' and leaves the saves and save_count as they are;
\* whatever the interleaving of save and unsave requests, a save is stored
\* only for a user and listing that have none, so that there is at most one
\* per user and listing, and a request that is not answered with success
\* changes nothing.
C27_DuplicateSaveRejected ==
    [][\A r \in DOMAIN requests :
           SaveAnswered(r) =>
               LET pair == <<requests[r].user, requests[r].target>>
               IN  /\ requests[r].existing =>
                          /\ requests'[r].code = 400
                          /\ saves' = saves /\ listings' = listings
                   /\ pair \in saves =>
                          /\ requests'[r].code # 200
                          /\ saves' = saves /\ listings' = listings
                   /\ requests'[r].code = 200 =>
                          /\ pair \notin saves
                          /\ saves' = saves \cup {pair}
                          /\ listings'[pair[2]].save_count =
                                 requests[r].row.save_count + 1]_vars

\* A duplicate save has been rejected: the save is still there, once.
C27_Witness ==
    \E r \in DOMAIN requests :
        /\ requests[r].op = "save" /\ requests[r].phase = "done"
        /\ requests[r].existing /\ requests[r].code = 400
        /\ <<requests[r].user, requests[r].target>> \in saves
        /\ listings[requests[r].target].save_count = 1

\* Two requests of one user that both found no save: one stored it, the
\* other failed at the unique index.
ConcurrentDuplicate ==
    \E r, q \in DOMAIN requests :
        /\ r # q /\ requests[r].user = requests[q].user
        /\ requests[r].op = "save" /\ requests[q].op = "save"
        /\ ~requests[r].existing /\ ~requests[q].existing
        /\ requests[r].code = 200 /\ requests[q].code = 500
        /\ listings[requests[r].target].save_count = 1

----------------------------------------------------------------------------
\* C28: a price-drop request is accepted only from the owner, on a listing
\* that has a price, with a new price strictly below it; every other request
\* is rejected, and a rejected request leaves price and original_price as
\* they were, creates no FeedEvent and publishes nothing.
C28_RejectedPriceDropChangesNothing ==
    [][response'.op = "price-drop" =>
           LET l == response'.target
           IN  /\ response'.code # 200 =>
                      /\ listings' = listings
                      /\ events' = events /\ event_ids' = event_ids
                      /\ published' = published
               /\ response'.code = 200 =>
                      /\ l \in ListingIds
                      /\ listings[l].user_id = response'.user
                      /\ listings[l].price # NoPrice /\ listings[l].price > 0
                      /\ listings'[l].price < listings[l].price
                      /\ response'.count = listings'[l].price
               /\ l \in ListingIds /\ (listings[l].price = NoPrice
                                          \/ listings[l].user_id # response'.user)
                      => response'.code \in {400, 403}]_vars

\* A request of the owner has been rejected because the new price is not
\* below the price, after an accepted drop: the first drop's price and
\* original_price and its one event are all there is.
C28_Witness ==
    /\ response.op = "price-drop" /\ response.code = 400
    /\ listings[response.target].user_id = response.user
    /\ listings[response.target].price = 50
    /\ listings[response.target].original_price = 100
    /\ Len(events) = 1

\* A request on a listing without price, and one of a user who is not the
\* owner, have been rejected.
RejectedWithoutPrice ==
    /\ response.op = "price-drop" /\ response.code = 400
    /\ listings[response.target].price = NoPrice

RejectedNotOwner ==
    /\ response.op = "price-drop" /\ response.code = 403
    /\ response.target \in ListingIds

----------------------------------------------------------------------------
\* Cell c has no activity in the 24 hours before the next state's clock: no
\* listing created, no save made and no trade request recorded there.
NoActivity(c) ==
    /\ \A l \in ListingIds :
           listings[l].h3_index = c => now' - listings[l].created_at > HeatWindowDays
    /\ \A s \in saves :
           listings[s[2]].h3_index = c => now' - saved_at[s] > HeatWindowDays
    /\ \A i \in DOMAIN events :
           events[i].h3_index = c /\ events[i].event_type = "TRADE_REQUEST"
               => now' - events[i].created_at > HeatWindowDays

\* C29: no operation deletes a heat-index record, and a pass of
\* update_heat_indexes without scope recomputes every existing record: its
\* window ends at the time of the pass, and a cell without activity in the
\* window has heat_score 0 and heat_level cold afterwards.
C29_EveryRecordRecomputed ==
    [][/\ DOMAIN heat \subseteq DOMAIN heat'
       /\ response'.op = "update_heat_indexes" =>
              \A c \in DOMAIN heat :
                  /\ heat'[c].window_end = now'
                  /\ NoActivity(c) =>
                         /\ heat'[c].heat_score = <<0, 1>>
                         /\ heat'[c].heat_level = "cold"]_vars

\* No step takes a heat-index record away.
HeatRecordsStay == [][DOMAIN heat \subseteq DOMAIN heat']_vars

----------------------------------------------------------------------------
\* The fields a pass writes.
PassFields(h) ==
    <<h.save_velocity, h.dm_velocity, h.trade_request_velocity, h.listing_velocity,
      h.view_velocity, h.active_listings, h.window_start, h.window_end,
      h.heat_score, h.heat_level>>

\* C30: a pass of update_heat_indexes that fails, wherever it fails, leaves
\* every heat-index record with the fields it had and adds none; and a pass
\* that follows a successful pass on unchanged data leaves the velocities and
\* the heat_score of every record as that pass wrote them.
C30_PassAtomicAndRepeatable ==
    [][response'.op = "update_heat_indexes" =>
           /\ response'.code # 200 =>
                  /\ DOMAIN heat' = DOMAIN heat
                  /\ \A c \in DOMAIN heat : PassFields(heat'[c]) = PassFields(heat[c])
           /\ response.op = "update_heat_indexes" /\ response.code = 200 =>
                  /\ DOMAIN heat' = DOMAIN heat
                  /\ \A c \in DOMAIN heat : PassFields(heat'[c]) = PassFields(heat[c])]_vars

\* A pass has failed after working on a cell whose record is out of date:
\* the save made since the last pass is not in its save_velocity.
C30_Witness ==
    /\ response.op = "update_heat_indexes"
    /\ response.code = 500 /\ response.count >= 1
    /\ \E c \in DOMAIN heat :
           /\ heat[c].save_velocity = <<0, 1>>
           /\ \E s \in saves : listings[s[2]].h3_index = c /\ saved_at[s] = now

----------------------------------------------------------------------------
\* C31: each of the batch jobs compute_listing_rankings, update_heat_indexes
\* and find_trade_matches ends even when every run fails: its body runs at
\* most 4 times (the first run and 3 retries), failure is reported by the
\* 4th failed run and by no earlier one, a run that completes reports
\* success, and a request that has reported success or failure runs no more.
Finished(req) == req.phase \in {"success", "failure"}

AllFinished == \A t \in DOMAIN requests : Finished(requests[t])

AttemptsBounded ==
    \A t \in DOMAIN requests :
        /\ requests[t].attempts <= max_retries + 1
        /\ requests[t].phase = "failure" => requests[t].attempts = max_retries + 1
        /\ requests[t].phase = "queued" => requests[t].attempts <= max_retries

RunsOnceMore ==
    \A t \in DOMAIN requests :
        /\ Finished(requests[t]) => requests'[t] = requests[t]
        /\ requests'[t] # requests[t] =>
               /\ requests'[t].attempts = requests[t].attempts + 1
               /\ response'.op = requests[t].op
               /\ response'.code = 200 <=> requests'[t].phase = "success"
               /\ response'.status = "failure" <=> requests'[t].phase = "failure"

C31_BoundedRetry ==
    /\ []AttemptsBounded
    /\ [][RunsOnceMore]_vars
    /\ <>[]AllFinished

C31_Witness ==
    /\ \E t \in DOMAIN requests :
           requests[t].phase = "failure" /\ requests[t].attempts = 4
    /\ \E t \in DOMAIN requests :
           requests[t].phase = "success" /\ requests[t].attempts = 3
    /\ Len(matches) = 1

----------------------------------------------------------------------------
\* C32: there is at most one heat-index record per resolution-9 cell in
\* every reachable state, also when several sessions call get_or_create for
\* the same absent cell at once and when a pass lists a cell twice;
\* get_or_create on a cell that has a record returns it and leaves it as it
\* is, and on a cell that has none it creates a record with heat_score 0,
\* heat_level cold and the trailing 24 hours as its window.
\* The records stored for cell c: one for every row a committed session has
\* inserted (no operation deletes a heat-index record).
RecordsOf(c) ==
    UNION {{<<r, i>> : i \in {i \in DOMAIN requests[r].added :
                                 requests[r].added[i] = c}} :
           r \in {r \in DOMAIN requests : /\ requests[r].phase = "done"
                                          /\ requests[r].code = 200}}

OneRecordPerCell ==
    \A c \in Cells :
        /\ Cardinality(RecordsOf(c)) <= 1
        /\ c \in DOMAIN heat <=> RecordsOf(c) # {}

GetOrCreateAnswers ==
    \A r \in DOMAIN requests :
        LET req == requests[r]
            c == req.hexes[1]
        IN  (/\ req.op = "heat-index" /\ req.phase = "loaded"
             /\ requests'[r].phase = "done" /\ requests'[r].code = 200) =>
                IF req.added = <<>>
                THEN /\ heat' = heat
                     /\ response'.status = heat[c].heat_level
                ELSE /\ c \notin DOMAIN heat
                     /\ DOMAIN heat' = DOMAIN heat \cup {c}
                     /\ \A d \in DOMAIN heat : heat'[d] = heat[d]
                     /\ heat'[c].h3_index = c
                     /\ heat'[c].heat_score = <<0, 1>>
                     /\ heat'[c].heat_level = "cold"
                     /\ heat'[c].window_end - heat'[c].window_start = HeatWindowDays
                     /\ heat'[c].window_end <= now

C32_OneHeatRecordPerCell ==
    /\ []OneRecordPerCell
    /\ [][GetOrCreateAnswers]_vars

\* Two sessions have called get_or_create for the same absent cell, one has
\* stored its row and the other has been refused; or a pass that lists a
\* cell twice has committed.
C32_Witness ==
    \/ \E r, q \in DOMAIN requests :
           /\ requests[r].added = requests[q].added /\ requests[r].added # <<>>
           /\ requests[r].code = 200 /\ requests[q].code = 500
           /\ "heat-index" \in {requests[r].op, requests[q].op}
    \/ \E r \in DOMAIN requests :
           /\ Len(requests[r].hexes) = 2 /\ requests[r].hexes[1] = requests[r].hexes[2]
           /\ requests[r].code = 200 /\ Len(requests[r].added) = 1

----------------------------------------------------------------------------
\* C33: in a resubscription after a location update no new channel is
\* subscribed before every old channel has been unsubscribed, and whenever
\* listen_client waits for the next message the channels the connection is
\* subscribed to at the broker are exactly the channels registered for it
\* in the ConnectionManager.
UnsubscribeBeforeSubscribe ==
    \A r \in DOMAIN requests :
        requests[r].subscribed # {} => requests[r].unsubscribed = requests[r].old

SubscribedIsRegistered ==
    \A w \in DOMAIN sockets :
        Waiting(w) => /\ w \in DOMAIN active_connections
                      /\ w \in DOMAIN pubsub
                      /\ pubsub[w] = active_connections[w]

C33_ResubscriptionOrderAndChannels ==
    UnsubscribeBeforeSubscribe /\ SubscribedIsRegistered

\* A connection of five channels has moved to a place whose disk shares a
\* channel with the old one, and waits again with the three new channels.
C33_Witness ==
    \E r \in DOMAIN requests :
        LET w == requests[r].websocket
        IN  /\ requests[r].phase = "done"
            /\ Waiting(w)
            /\ Cardinality(requests[r].old) = 5
            /\ requests[r].old \cap requests[r].new # {}
            /\ requests[r].new \ requests[r].old # {}
            /\ pubsub[w] = requests[r].new
            /\ Cardinality(pubsub[w]) = 3

----------------------------------------------------------------------------
\* C34: for a websocket connection, once the broker listener or the
\* client-command listener has completed, the other one is cancelled and
\* the handler goes on to its cleanup; after the client has disconnected no
\* further feed_event message is sent on the connection, and the handler
\* ends.
HandlerEnded(w) == sockets[w].status = "closed"

ListenerCompleted(w) ==
    sockets[w].redis_task = "done" \/ sockets[w].client_task = "done"

\* The handler waits while both listeners run, and once it has left the
\* wait no listener runs: one has completed and the other is cancelled or
\* has completed too.
OneCompletedOtherCancelled ==
    \A w \in StreamSockets :
        /\ sockets[w].handler = "wait" =>
               /\ sockets[w].redis_task \in {"running", "done"}
               /\ sockets[w].client_task \in {"running", "done"}
        /\ sockets[w].handler = "cleanup" =>
               /\ ListenerCompleted(w)
               /\ sockets[w].redis_task # "running"
               /\ sockets[w].client_task # "running"
        /\ HandlerEnded(w) =>
               /\ sockets[w].handler = "cleanup"
               /\ w \notin DOMAIN active_connections

NothingSentToGoneClient ==
    \A w \in StreamSockets :
        sockets[w].client = "gone" =>
            /\ sockets'[w].sent = sockets[w].sent
            /\ sockets'[w].client = "gone"

----------------------------------------------------------------------------
\* C35: whatever ranking passes, heat passes and listing changes have
\* overlapped before, a complete ranking pass during which nothing else
\* changes the store leaves rank_score and demand_score of every active
\* listing equal to the ranking formula evaluated on the stored data.
ActiveListings == {l \in ListingIds : listings[l].status = "ACTIVE"}

FormulaScore(l) ==
    RatSum(<<<<listings[l].save_count * 15,
               BatchMax({listings[b].save_count : b \in ActiveListings})>>,
             <<listings[l].message_count * 10,
               BatchMax({listings[b].message_count : b \in ActiveListings})>>,
             <<listings[l].view_count * 5,
               BatchMax({listings[b].view_count : b \in ActiveListings})>>,
             Demand(l),
             Freshness(l),
             <<listings[l].authenticity_score, 10>>,
             IF listings[l].is_verified THEN <<5, 1>> ELSE <<0, 1>>,
             Bonus(l)>>)

C35_CompletePassCorrectsScores ==
    response.op = "rank-commit" /\ response.status = "undisturbed" =>
        \A l \in ActiveListings :
            /\ RatEq(listings[l].rank_score, FormulaScore(l))
            /\ RatEq(listings[l].demand_score, Demand(l))

\* Scores that differ from the formula: a pass that had read the store before
\* a save or a heat pass has committed after it.
StaleScores ==
    \E l \in ActiveListings : ~RatEq(listings[l].rank_score, FormulaScore(l))

\* After a save, a heat pass and a sale a complete pass has committed while
\* the pass of the other worker is still under way.
C35_Witness ==
    /\ response.op = "rank-commit" /\ response.status = "undisturbed"
    /\ saves # {}
    /\ DOMAIN heat # {}
    /\ listings[3].status = "SOLD"
    /\ RatLess(<<0, 1>>, listings[1].demand_score)
    /\ \E w \in RankWorkers : requests[w].phase = "loaded"

----------------------------------------------------------------------------
\* C36: find_trade_matches passes that run at the same time never leave two
\* matches that are not COMPLETED, DECLINED or EXPIRED for the same
\* unordered pair of listings.
C36_ConcurrentPassesKeepPairsUnique ==
    \A i, j \in MatchIds :
        /\ i # j
        /\ matches[i].status \notin MatchTerminal
        /\ matches[j].status \notin MatchTerminal
        => Range(matches[i].listing_ids) # Range(matches[j].listing_ids)

\* Passes that run one after the other: a pair of listings has at most one
\* match, of whatever status.
OneMatchPerPairInTurn ==
    \A i, j \in MatchIds :
        i # j => Range(matches[i].listing_ids) # Range(matches[j].listing_ids)

----------------------------------------------------------------------------
\* C37: once the expires_at of a match has passed, an accept never moves
\* the match to PENDING or ACCEPTED, whether the cleanup has marked it
\* EXPIRED or not; and a cleanup pass marks EXPIRED every match that is
\* SUGGESTED, VIEWED or PENDING past its expires_at and changes no other
\* match.
Overdue(m) == m.expires_at # NoExpiry /\ now > m.expires_at

AcceptLeavesOverdue ==
    \A m \in MatchIds :
        (/\ response'.op = "accept"
         /\ Overdue(matches[m])
         /\ matches'[m].status \in {"PENDING", "ACCEPTED"})
            => matches'[m].status = matches[m].status

CleanupExpiresOverdue ==
    response'.op = "cleanup" =>
        \A m \in MatchIds :
            IF Overdue(matches[m])
                   /\ matches[m].status \in {"SUGGESTED", "VIEWED", "PENDING"}
            THEN matches'[m] = [matches[m] EXCEPT !.status = "EXPIRED"]
            ELSE matches'[m] = matches[m]

C37_OverdueMatchNotAccepted ==
    [][AcceptLeavesOverdue /\ CleanupExpiresOverdue]_vars

CleanupExpiresOnlyOverdue == [][CleanupExpiresOverdue]_vars

\* A cleanup pass has marked a match EXPIRED that was overdue.
CleanupHasExpired ==
    /\ response.op = "cleanup" /\ response.count > 0
    /\ \E m \in MatchIds : matches[m].status = "EXPIRED"

----------------------------------------------------------------------------
\* C38: after any sequence of save and unsave requests on a listing that
\* starts with save_count 0 and no saves, save_count is the number of
\* ListingSave rows of the listing, and it is never negative.
SavesOf(l) == {s \in saves : s[2] = l}

C38_SaveCountIsNumberOfSaves ==
    \A l \in ListingIds :
        /\ listings[l].save_count = Cardinality(SavesOf(l))
        /\ listings[l].save_count >= 0

\* Two users have saved listing 1 and one of them has removed the save
\* again; the other user's save is left.
C38_Witness ==
    /\ response.op = "unsave" /\ response.code = 200 /\ response.target = 1
    /\ listings[1].save_count = 1
    /\ Cardinality(SavesOf(1)) = 1
    /\ listings[1].demand_score = <<2, 1>>

\* C39: a step publishes at most one message, of an event not published
\* before, and only a step of listing creation, price drop or mark-sold does;
\* the message is of the FeedEvent row the same handler has just committed
\* and goes to the channel feed:<resolution-9 cell of the listing>; a request
\* that is rejected (400, 403, 404) or whose commit fails (500) leaves the
\* broker as it was.
C39_PublishedOnceAfterCommit ==
    [][/\ response'.code \notin {200, 201} => published' = published
       /\ published' # published =>
              /\ response'.op \in {"create", "price-drop", "sold"}
              /\ Len(published') = Len(published) + 1
              /\ SubSeq(published', 1, Len(published)) = published
              /\ LET message == published'[Len(published')]
                     l == message.entity_id
                 IN  /\ \A i \in DOMAIN published : published[i].id # message.id
                     /\ Len(events') = Len(events) + 1
                     /\ events'[Len(events')].id = message.id
                     /\ events'[Len(events')].entity_id = l
                     /\ l = response'.target
                     /\ l \in DOMAIN listings'
                     /\ message.channel = <<"feed", listings'[l].h3_index>>]_vars

\* Two events have been stored and published, one message each, and then a
\* commit failed: the broker still holds the two messages.
C39_Witness ==
    /\ Len(published) = 2 /\ Len(events) = 2
    /\ published[1].id # published[2].id
    /\ {published[1].type, published[2].type} = {"NEW_LISTING", "ITEM_SOLD"}
    /\ published[1].channel # published[2].channel
    /\ response.code = 500

\* The price-drop percentage of a listing lies in [0, 100].
PercentInRange(l) ==
    /\ RatLeq(<<0, 1>>, get_price_drop_percent(l))
    /\ RatLeq(get_price_drop_percent(l), <<100, 1>>)

\* What a price-drop request leaves of the listing it was about: an
\* original_price that was set is unchanged, a drop answered 200 has lowered
\* the price, and the price is below the original_price that is set.
PriceDropKeepsOrder(before, after, code) ==
    /\ before.original_price # NoPrice => after.original_price = before.original_price
    /\ code = 200 => after.price < before.price
    /\ after.original_price # NoPrice => after.price < after.original_price
    /\ PercentInRange(after)

\* C40: after every price-drop request on a listing, an original_price set
\* by an earlier drop is unchanged, a successful drop has strictly lowered
\* the price, the price is below original_price whenever original_price is
\* set, and the price-drop percentage lies in [0, 100].
C40_PriceDropsKeepOriginalAbovePrice ==
    [][response'.op = "price-drop" /\ response'.target \in ListingIds =>
           PriceDropKeepsOrder(listings[response'.target],
                               listings'[response'.target], response'.code)]_vars

====
